---- MODULE Spec2Model ----
(***************************************************************************)
(* Verification model of the part (segment) storage layer of BanyanDB:     *)
(*   - partWrapper reference counting and deferred directory removal       *)
(*     (banyand/stream/part.go)                                            *)
(*   - blockReader, the k-way streaming merge over partMergeIter           *)
(*     (banyand/measure/block_reader.go)                                   *)
(*   - memPart.mustInitFromElements, which cuts a batch of rows into       *)
(*     blocks (banyand/stream/part.go)                                     *)
(*   - the large-file threshold registry (banyand/fadvis/helper.go)        *)
(*   - memPart.mustFlush, openMemPart and mustOpenFilePart                 *)
(*     (banyand/stream/part.go)                                            *)
(***************************************************************************)
EXTENDS Integers, Sequences, FiniteSets, TLC

(***************************************************************************)
(* Bounds of the model                                                     *)
(***************************************************************************)
\* reader threads besides the creator (thread 0)
NumReaders == 2
\* incRef calls in one behaviour
MaxIncs == 3
\* decRef calls made without a matching reference (SpecAnyCalls only)
MaxExtra == 1
\* tag families of the file-backed part
NumTagFamilies == 1

\* input iterators handed to blockReader.init
NumIters == 3
\* blocks the input parts hold in all
MaxBlocks == 4
\* series identifiers 1 .. MaxSid, timestamps 1 .. MaxTs
MaxSid == 2
MaxTs == 2

\* rows of one batch handed to mustInitFromElements
MaxRows == 3
\* bytes of tag names and tag values a row carries: 0 or MaxTagBytes
MaxTagBytes == 16

\* thresholds passed to the registry: -1 .. MaxThreshold
MaxThreshold == 2
\* bytes a memPart buffer holds: none or MaxBufLen
MaxBufLen == 2
\* part identifiers 0 .. MaxPartID
MaxPartID == 1
\* ChunkIDs are 1 .. MaxChunkID, a collection holds at most MaxChunkIDs of them
MaxChunkID == 2
MaxChunkIDs == 3

Threads == 0 .. NumReaders
TagFamilies == 1 .. NumTagFamilies

VARIABLES
    \* ---- partWrapper (part.go:236-241) and what it owns
    ref,          \* pw.ref, int32
    mp,           \* pw.mp: "nil" or "memPart"
    p,            \* pw.p: "nil" or "part"
    removable,    \* pw.removable, atomic.Bool
    closed,       \* stream -> number of fs.MustClose calls on it
    memReleased,  \* number of releaseMemPart calls (reset + pool Put)
    rmPending,    \* background goroutines that have not run MustRMAll yet
    rmScheduled,  \* number of `go func` statements executed by decRef
    dirExists,    \* whether the part's backing directory is on disk
    panicked,     \* a nil dereference has crashed the process
    \* ---- the threads using the wrapper
    pc,           \* thread -> its position inside decRef, "idle" outside of it
    n,            \* thread -> the value its atomic.AddInt32(&pw.ref, -1) returned
    todo,         \* thread -> streams p.close() has still to close
    held,         \* thread -> references it obtained and has not released
    \* ---- history
    incs,         \* incRef calls so far
    decs,         \* decRef calls so far (atomic decrements executed)
    extras,       \* decRef calls made by a thread holding no reference
    lateIncs,     \* incRef calls made while no thread held a reference
    cleanups,     \* decRef calls that went past the `n > 0` return
    sawUnset,     \* a cleanup read removable = false
    \* ---- partMergeIter, one per input part
    pmiCount,     \* iterator -> number of blocks it has yielded
    pmiBlock,     \* iterator -> its block field: the current block's (sid, ts)
    pmiErr,       \* iterator -> its err field
    \* ---- blockReader (block_reader.go:179-184)
    brErr,        \* br.err
    brBlock,      \* br.block: the iterator whose block field it points to, 0 = nil
    pih,          \* br.pih: the heap array of iterators
    nextBlockNoop,\* br.nextBlockNoop
    brLoaded,     \* the iterator whose block holds decoded payload, 0 = none
    \* ---- the caller of the blockReader, and history
    phase,        \* "new" before init, "ready" after
    pii,          \* number of iterators handed to init (iterators 1 .. pii)
    lastRet,      \* what the last nextBlockMetadata call returned
    nEmitted,     \* number of calls that returned true
    lastEmit,     \* the block the last such call exposed: iterator, index, key
    emittedIdx,   \* iterator -> index of its block exposed last, 0 = none
    initFail,     \* the iterator whose error stopped init, 0 = none
    midFail,      \* the failure of a head iterator inside nextMetadata
    \* ---- memPart.mustInitFromElements (part.go:138-169)
    es,           \* the batch: rows [sid, ts, eid, tagBytes] in input order
    sorted,       \* the batch after sort.Sort(es)
    written,      \* the MustWriteElements calls made: [sid, rows] each
    built,        \* mustInitFromElements has returned
    \* ---- package fadvis (helper.go:31-39)
    LargeFileThreshold,  \* atomic.Int64
    memoryProtector,     \* the registered *protector.Memory
    memoryProtectorOnce, \* the sync.Once has run
    build,        \* which of the two helper.go sources was compiled
    smpPc,        \* thread -> its position inside SetMemoryProtector
    smpRan,       \* history: number of times the function given to Do ran
    smpReturned,  \* history: some SetMemoryProtector call has returned
    smpImported,  \* history: some registration stored its threshold
    thCall,       \* history: the last call made to the registry
    \* ---- memPart (part.go:95-102)
    mpMeta,       \* mp.partMetadata
    mpFamilies,   \* the keys of mp.tagFamilies and mp.tagFamilyMetadata
    mpLen,        \* buffer -> number of bytes it holds
    \* ---- the directory mustFlush writes and mustOpenFilePart reads
    fsDir,        \* the directory exists
    fsFiles,      \* file name -> the file's state and bytes
    fsMetadata,   \* metadata.json: its state and the partMetadata it holds
    synced,       \* fileSystem.SyncPath(path) has returned
    hinted,       \* the files fadvis.Apply was called on
    \* ---- one mustFlush call and one mustOpenFilePart call
    fpath,        \* base name of mustFlush's path: "part" (partName(partID)) or "idx"
    partID,       \* the id the directory is derived from and opened with
    fpc,          \* position of the mustFlush call
    fstep,        \* index into flushSteps of the step to do next
    fTodo,        \* tag families the current range loop has still to visit
    opened,       \* outcome of mustOpenFilePart: none yet, fatal, or the part
    \* ---- one seqReader (block_reader.go:41-51)
    srBound,      \* sr.sr and sr.r are set
    srFilePath,   \* sr.filePath: a sequence of path components, <<>> for ""
    srFileSize,   \* sr.fileSize
    srIsLargeFile,\* sr.isLargeFile
    srInit,       \* history: the last init call: its path, stat result, threshold
    srDisposal,   \* history: the reset since the last init: what it found and did
    \* ---- two calls of ChunkIDs.HashIntersect
    hiC,          \* the collection c
    hiOther,      \* the collection other
    hiResult,     \* what c.HashIntersect(other) returned
    hiSwapped,    \* what other.HashIntersect(c) returned
    hiDone        \* both calls have returned

pwVars == <<ref, mp, p, removable, closed, memReleased, rmPending, rmScheduled,
            dirExists, panicked, pc, n, todo, held, incs, decs, extras,
            lateIncs, cleanups, sawUnset>>

mrVars == <<pmiCount, pmiBlock, pmiErr, brErr, brBlock, pih, nextBlockNoop, brLoaded,
            phase, pii, lastRet, nEmitted, lastEmit, emittedIdx, initFail, midFail>>

bdVars == <<es, sorted, written, built>>

thVars == <<LargeFileThreshold, memoryProtector, memoryProtectorOnce, build, smpPc,
            smpRan, smpReturned, smpImported, thCall>>

mpVars == <<mpMeta, mpFamilies, mpLen>>

flVars == <<fsDir, fsFiles, fsMetadata, synced, hinted, fpath, partID, fpc,
            fstep, fTodo, opened>>

srVars == <<srBound, srFilePath, srFileSize, srIsLargeFile, srInit, srDisposal>>

hiVars == <<hiC, hiOther, hiResult, hiSwapped, hiDone>>

vars == <<pwVars, mrVars, bdVars, thVars, mpVars, flVars, srVars, hiVars>>

\* what the operations of one component leave alone
notPwVars == <<mrVars, bdVars, thVars, mpVars, flVars, srVars, hiVars>>
notMrVars == <<pwVars, bdVars, thVars, mpVars, flVars, srVars, hiVars>>
notBdVars == <<pwVars, mrVars, thVars, flVars, srVars, hiVars>>
notThVars == <<pwVars, mrVars, bdVars, mpVars, flVars, srVars, hiVars>>
notFlVars == <<pwVars, mrVars, bdVars, thVars, mpVars, srVars, hiVars>>
notSrVars == <<pwVars, mrVars, bdVars, mpVars, flVars, hiVars>>
notHiVars == <<pwVars, mrVars, bdVars, thVars, mpVars, flVars, srVars>>

(***************************************************************************)
(* part: the streams part.close() closes (part.go:49-69)                   *)
(***************************************************************************)
TagFamilyStreams == {<<"tf", i>> : i \in TagFamilies}
TagFamilyMetadataStreams == {<<"tfm", i>> : i \in TagFamilies}
Streams == {<<"primary", 0>>, <<"timestamps", 0>>}
              \cup TagFamilyStreams \cup TagFamilyMetadataStreams

\* part.close: primary, then timestamps, then every p.tagFamilies entry (map
\* order), then every p.tagFamilyMetadata entry (map order).
closeNext(td) ==
    IF <<"primary", 0>> \in td THEN {<<"primary", 0>>}
    ELSE IF <<"timestamps", 0>> \in td THEN {<<"timestamps", 0>>}
    ELSE IF td \cap TagFamilyStreams # {} THEN td \cap TagFamilyStreams
    ELSE td

(***************************************************************************)
(* int32 arithmetic of sync/atomic                                         *)
(***************************************************************************)
MaxInt32 == 2147483647
MinInt32 == (-MaxInt32) - 1
Int32(x) ==
    IF x > MaxInt32 THEN MinInt32 + (x - MaxInt32 - 1)
    ELSE IF x < MinInt32 THEN MaxInt32 - (MinInt32 - x - 1)
    ELSE x

\* atomic.AddInt32 returns the new value
AddInt32(x, d) == Int32(x + d)

\* incRef: atomic.AddInt32(&pw.ref, 1)
incRefLost(r) == r
incRefValue(r) == AddInt32(r, 1)

\* decRef: `if n > 0 { return }`
decRefReturnsAtZero(m) == m >= 0
decRefReturnsAtOne(m) == m > 1
decRefReturns(m) == m > 0

\* decRef: `pw.removable.Load() && pw.p.fileSystem != nil`
fileSystemSet == p = "part" /\ mp = "nil"
shouldRemoveAlways(flag) == fileSystemSet
shouldRemoveNever(flag) == FALSE
shouldRemove(flag) == flag /\ fileSystemSet

(***************************************************************************)
(* newPartWrapper(mp, p): ref = 1, removable = false                       *)
(***************************************************************************)
InitWrapper ==
    /\ ref = 1
    /\ \E w \in {<<"memPart", "nil">>, <<"memPart", "part">>, <<"nil", "part">>} :
          mp = w[1] /\ p = w[2]
    /\ removable = FALSE
    /\ closed = [s \in Streams |-> 0]
    /\ memReleased = 0
    /\ rmPending = 0
    /\ rmScheduled = 0
    /\ dirExists = TRUE
    /\ panicked = FALSE
    /\ pc = [t \in Threads |-> "idle"]
    /\ n = [t \in Threads |-> 1]
    /\ todo = [t \in Threads |-> {}]
    /\ held = [t \in Threads |-> IF t = 0 THEN 1 ELSE 0]
    /\ incs = 0
    /\ decs = 0
    /\ extras = 0
    /\ lateIncs = 0
    /\ cleanups = 0
    /\ sawUnset = FALSE

SomeoneHolds == \E h \in Threads : held[h] > 0

(***************************************************************************)
(* incRef                                                                  *)
(***************************************************************************)
incRef(t) ==
    /\ ~panicked
    /\ UNCHANGED notPwVars
    /\ pc[t] = "idle"
    /\ incs < MaxIncs
    /\ ref' = incRefValue(ref)
    /\ held' = [held EXCEPT ![t] = @ + 1]
    /\ incs' = incs + 1
    /\ UNCHANGED <<mp, p, removable, closed, memReleased, rmPending, rmScheduled,
                   dirExists, panicked, pc, n, todo, decs, extras, cleanups,
                   sawUnset>>

\* a reader takes its reference from a wrapper some thread still holds
Acquire(t) == SomeoneHolds /\ incRef(t) /\ UNCHANGED lateIncs

\* incRef on a wrapper nobody holds any more
LateAcquire(t) == ~SomeoneHolds /\ incRef(t) /\ lateIncs' = lateIncs + 1

(***************************************************************************)
(* decRef, one step per access to shared state                             *)
(***************************************************************************)
\* n := atomic.AddInt32(&pw.ref, -1); if n > 0 { return }
decRefAdd(t) ==
    /\ ~panicked
    /\ UNCHANGED notPwVars
    /\ pc[t] = "idle"
    /\ LET m == AddInt32(ref, -1) IN
         /\ ref' = m
         /\ n' = [n EXCEPT ![t] = m]
         /\ pc' = [pc EXCEPT ![t] = IF decRefReturns(m) THEN "idle" ELSE "cleanup"]
         /\ cleanups' = IF decRefReturns(m) THEN cleanups ELSE cleanups + 1
    /\ decs' = decs + 1
    /\ UNCHANGED <<mp, p, removable, closed, memReleased, rmPending, rmScheduled,
                   dirExists, panicked, todo, incs, lateIncs, sawUnset>>

Release(t) ==
    /\ held[t] > 0
    /\ decRefAdd(t)
    /\ held' = [held EXCEPT ![t] = @ - 1]
    /\ UNCHANGED extras

ExtraRelease(t) ==
    /\ held[t] = 0
    /\ extras < MaxExtra
    /\ decRefAdd(t)
    /\ extras' = extras + 1
    /\ UNCHANGED held

\* decRef: `if pw.mp != nil`
memoryBackedNever(w) == FALSE
memoryBacked(w) == w # "nil"

\* if pw.mp != nil { releaseMemPart(pw.mp) ... } else pw.p.close()
decRefCleanup(t) ==
    /\ ~panicked
    /\ UNCHANGED notPwVars
    /\ pc[t] = "cleanup"
    /\ IF memoryBacked(mp)
       THEN /\ memReleased' = memReleased + 1
            /\ pc' = [pc EXCEPT ![t] = "clear"]
            /\ UNCHANGED <<todo, panicked>>
       ELSE IF p = "nil"
       THEN /\ panicked' = TRUE
            /\ UNCHANGED <<memReleased, pc, todo>>
       ELSE /\ pc' = [pc EXCEPT ![t] = "closing"]
            /\ todo' = [todo EXCEPT ![t] = Streams]
            /\ UNCHANGED <<memReleased, panicked>>
    /\ UNCHANGED <<ref, mp, p, removable, closed, rmPending, rmScheduled, dirExists,
                   n, held, incs, decs, extras, lateIncs, cleanups, sawUnset>>

\* a cleanup that forgets only the memPart
decRefClearKeepsPart(t) ==
    /\ ~panicked
    /\ UNCHANGED notPwVars
    /\ pc[t] = "clear"
    /\ mp' = "nil"
    /\ pc' = [pc EXCEPT ![t] = "idle"]
    /\ UNCHANGED <<ref, p, removable, closed, memReleased, rmPending, rmScheduled,
                   dirExists, panicked, n, todo, held, incs, decs, extras,
                   lateIncs, cleanups, sawUnset>>

\* pw.mp = nil; pw.p = nil; return
decRefClear(t) ==
    /\ ~panicked
    /\ UNCHANGED notPwVars
    /\ pc[t] = "clear"
    /\ mp' = "nil"
    /\ p' = "nil"
    /\ pc' = [pc EXCEPT ![t] = "idle"]
    /\ UNCHANGED <<ref, removable, closed, memReleased, rmPending, rmScheduled,
                   dirExists, panicked, n, todo, held, incs, decs, extras,
                   lateIncs, cleanups, sawUnset>>

\* part.close(): one fs.MustClose
partClose(t) ==
    /\ ~panicked
    /\ UNCHANGED notPwVars
    /\ pc[t] = "closing"
    /\ todo[t] # {}
    /\ \E s \in closeNext(todo[t]) :
          /\ closed' = [closed EXCEPT ![s] = @ + 1]
          /\ todo' = [todo EXCEPT ![t] = @ \ {s}]
    /\ UNCHANGED <<ref, mp, p, removable, memReleased, rmPending, rmScheduled,
                   dirExists, panicked, pc, n, held, incs, decs, extras, lateIncs,
                   cleanups, sawUnset>>

\* go func(pw *partWrapper) { pw.p.fileSystem.MustRMAll(pw.p.path) }(pw)
scheduleInline ==
    /\ dirExists' = FALSE
    /\ rmScheduled' = rmScheduled + 1
    /\ UNCHANGED rmPending
scheduleRemoval ==
    /\ rmPending' = rmPending + 1
    /\ rmScheduled' = rmScheduled + 1
    /\ UNCHANGED dirExists

\* if pw.removable.Load() && pw.p.fileSystem != nil { go ... }; return
decRefSchedule(t) ==
    /\ ~panicked
    /\ UNCHANGED notPwVars
    /\ pc[t] = "closing"
    /\ todo[t] = {}
    /\ IF shouldRemove(removable)
       THEN scheduleRemoval /\ UNCHANGED sawUnset
       ELSE /\ sawUnset' = TRUE
            /\ UNCHANGED <<rmPending, rmScheduled, dirExists>>
    /\ pc' = [pc EXCEPT ![t] = "idle"]
    /\ UNCHANGED <<ref, mp, p, removable, closed, memReleased, panicked, n, todo,
                   held, incs, decs, extras, lateIncs, cleanups>>

\* the background goroutine: pw.p.fileSystem.MustRMAll(pw.p.path)
removeAll ==
    /\ ~panicked
    /\ UNCHANGED notPwVars
    /\ rmPending > 0
    /\ rmPending' = rmPending - 1
    /\ dirExists' = FALSE
    /\ UNCHANGED <<ref, mp, p, removable, closed, memReleased, rmScheduled,
                   panicked, pc, n, todo, held, incs, decs, extras, lateIncs,
                   cleanups, sawUnset>>

\* pw.removable.Store(true)
markRemovable ==
    /\ ~panicked
    /\ UNCHANGED notPwVars
    /\ ~removable
    /\ removable' = TRUE
    /\ UNCHANGED <<ref, mp, p, closed, memReleased, rmPending, rmScheduled,
                   dirExists, panicked, pc, n, todo, held, incs, decs, extras,
                   lateIncs, cleanups, sawUnset>>

(***************************************************************************)
(* partMergeIter: the per-part iterator the merge pulls from               *)
(***************************************************************************)
Iters == 1 .. NumIters
Keys == (1 .. MaxSid) \X (1 .. MaxTs)

\* blockMetadata.less: by series identifier, then by timestamp
blockLess(a, b) == IF a[1] = b[1] THEN a[2] < b[2] ELSE a[1] < b[1]
blockLE(a, b) == ~blockLess(b, a)

\* error values: nil, io.EOF, an I/O error of iterator it; wrapped = wrapped by
\* the blockReader's fmt.Errorf("can't get the block to merge: %w", err)
NilErr == [kind |-> "nil", it |-> 0, wrapped |-> FALSE]
EOFErr == [kind |-> "EOF", it |-> 0, wrapped |-> FALSE]
IOErr(i) == [kind |-> "io", it |-> i, wrapped |-> FALSE]
Wrap(e) == [e EXCEPT !.wrapped = TRUE]
\* errors.Is(err, io.EOF) follows the %w chain
IsEOF(e) == e.kind = "EOF"

\* what one advance of an iterator meets in its part
NoKey == <<0, 0>>
Advance(kind, key) == [kind |-> kind, key |-> key]
Outcomes ==
    {Advance("block", k) : k \in Keys} \cup {Advance("EOF", NoKey), Advance("io", NoKey)}

RECURSIVE sumUpTo(_, _)
sumUpTo(f, k) == IF k = 0 THEN 0 ELSE f[k] + sumUpTo(f, k - 1)

\* an iterator that failed or ended stays so; the parts hold at most MaxBlocks
\* blocks in all, each part in ascending (series identifier, timestamp) order
validOutcome(total, count, block, err, o) ==
    IF err # NilErr THEN o = Advance("EOF", NoKey)
    ELSE o.kind = "block" =>
            /\ total < MaxBlocks
            /\ count > 0 => blockLE(block, o.key)

\* partMergeIter.nextBlockMetadata: the return value, and the iterator after it
pmiNextOK(err, o) == err = NilErr /\ o.kind = "block"
pmiNextBlock(block, err, o) == IF pmiNextOK(err, o) THEN o.key ELSE block
pmiNextCount(count, err, o) == IF pmiNextOK(err, o) THEN count + 1 ELSE count
pmiNextErr(i, err, o) ==
    IF err # NilErr THEN err
    ELSE IF o.kind = "block" THEN NilErr
    ELSE IF o.kind = "EOF" THEN EOFErr
    ELSE IOErr(i)

\* partMergeIter.error: nil for a clean end
pmiError(err) == IF err = NilErr \/ IsEOF(err) THEN NilErr ELSE err

(***************************************************************************)
(* container/heap over partMergeIterHeap; h[k+1] is Go's h[k], cur is each *)
(* iterator's current block                                                *)
(***************************************************************************)
heapLess(h, cur, a, b) == blockLess(cur[h[a + 1]], cur[h[b + 1]])
heapSwap(h, a, b) == [h EXCEPT ![a + 1] = h[b + 1], ![b + 1] = h[a + 1]]

RECURSIVE heapDown(_, _, _, _)
heapDown(h, cur, i, len) ==
    LET j1 == 2 * i + 1
        j2 == j1 + 1
        j == IF j2 < len /\ heapLess(h, cur, j2, j1) THEN j2 ELSE j1
    IN IF j1 >= len THEN h
       ELSE IF ~heapLess(h, cur, j, i) THEN h
       ELSE heapDown(heapSwap(h, i, j), cur, j, len)

RECURSIVE heapUp(_, _, _)
heapUp(h, cur, j) ==
    LET i == (j - 1) \div 2
    IN IF j = 0 THEN h
       ELSE IF ~heapLess(h, cur, j, i) THEN h
       ELSE heapUp(heapSwap(h, j, i), cur, i)

RECURSIVE heapInitFrom(_, _, _)
heapInitFrom(h, cur, i) ==
    IF i < 0 THEN h ELSE heapInitFrom(heapDown(h, cur, i, Len(h)), cur, i - 1)

\* heap.Init(&br.pih)
heapInit(h, cur) == heapInitFrom(h, cur, (Len(h) \div 2) - 1)

\* heap.Fix(&br.pih, 0)
heapFixNothing(h, cur, i) == h
heapFix(h, cur, i) ==
    LET d == heapDown(h, cur, i, Len(h))
    IN IF d # h THEN d ELSE heapUp(h, cur, i)

\* heap.Pop(&br.pih)
heapPopNothing(h, cur) == h
heapPop(h, cur) ==
    LET last == Len(h) - 1
    IN SubSeq(heapDown(heapSwap(h, 0, last), cur, 0, last), 1, last)

(***************************************************************************)
(* blockReader                                                             *)
(***************************************************************************)
NoEmit == [it |-> 0, idx |-> 0, key |-> NoKey]

\* blockReader.reset, and iterators that have not been advanced yet
InitReader ==
    /\ pmiCount = [i \in Iters |-> 0]
    /\ pmiBlock = [i \in Iters |-> NoKey]
    /\ pmiErr = [i \in Iters |-> NilErr]
    /\ brErr = NilErr
    /\ brBlock = 0
    /\ pih = <<>>
    /\ nextBlockNoop = FALSE
    /\ brLoaded = 0
    /\ phase = "new"
    /\ pii = 0
    /\ lastRet = "none"
    /\ nEmitted = 0
    /\ lastEmit = NoEmit
    /\ emittedIdx = [i \in Iters |-> 0]
    /\ initFail = 0
    /\ midFail = [it |-> 0, len |-> 0]

\* blockReader.error
brErrorRaw(e) == e
brError(e) == IF IsEOF(e) THEN NilErr ELSE e

\* init: `if err := pi.error(); err != nil { br.err = ...; return }`
initContinuesOnError(e) == FALSE
initFails(e) == e # NilErr

\* init: `br.nextBlockNoop = true`
noopAfterInitMissing == FALSE
noopAfterInit == TRUE

\* nextMetadata: `if err := head.error(); err != nil { br.block = nil; return err }`
headErrorIgnored(e) == FALSE
headFailed(e) == e # NilErr

\* the first iterator of 1 .. k whose first advance fails with an error, or 0
firstFailure(k, out) ==
    LET bad == {i \in 1 .. k : initFails(pmiError(pmiNextErr(i, NilErr, out[i])))}
    IN IF bad = {} THEN 0 ELSE CHOOSE i \in bad : \A j \in bad : i <= j

\* history: the first iterator of 1 .. k whose first advance met an I/O error
firstIOError(k, out) ==
    LET bad == {i \in 1 .. k : out[i].kind = "io"}
    IN IF bad = {} THEN 0 ELSE CHOOSE i \in bad : \A j \in bad : i <= j

\* init: `if pi.nextBlockMetadata() { br.pih = append(br.pih, pi); continue }`
initQueuesAlways(ok) == TRUE
initQueues(ok) == ok

RECURSIVE appendHolders(_, _)
\* init's loop over pii[1 .. upto]: br.pih = append(br.pih, pi) for each
\* iterator whose nextBlockMetadata returned true
appendHolders(upto, out) ==
    IF upto = 0 THEN <<>>
    ELSE LET rest == appendHolders(upto - 1, out)
         IN IF initQueues(pmiNextOK(NilErr, out[upto]))
            THEN Append(rest, upto) ELSE rest

RECURSIVE initLoop(_, _, _, _)
\* init's loop `for _, pi := range pii` from position k of the list ids, with
\* the iterators queued so far; out[i] is what iterator i meets when advanced
initLoop(ids, k, out, queue) ==
    IF k > Len(ids) THEN [pih |-> queue, err |-> NilErr]
    ELSE LET i == ids[k]
         IN IF initQueues(pmiNextOK(NilErr, out[i]))
            THEN initLoop(ids, k + 1, out, Append(queue, i))
            ELSE IF initFails(pmiError(pmiNextErr(i, NilErr, out[i])))
            THEN [pih |-> queue, err |-> Wrap(pmiError(pmiNextErr(i, NilErr, out[i])))]
            ELSE initLoop(ids, k + 1, out, queue)

\* blockReader.init as a function of the list of iterators it is given: the
\* reader's fields when init returns
initOn(ids, out) ==
    LET l == initLoop(ids, 1, out, <<>>)
        blocks == [i \in Iters |-> pmiNextBlock(NoKey, NilErr, out[i])]
    IN IF l.err # NilErr
       THEN [err |-> l.err, pih |-> l.pih, block |-> 0, noop |-> FALSE]
       ELSE IF l.pih = <<>>
       THEN [err |-> EOFErr, pih |-> <<>>, block |-> 0, noop |-> FALSE]
       ELSE [err |-> NilErr, pih |-> heapInit(l.pih, blocks),
             block |-> heapInit(l.pih, blocks)[1], noop |-> noopAfterInit]

\* init and nextMetadata call only nextBlockMetadata on the iterators: the
\* block an iterator has advanced to holds metadata, its payload is not read
payloadAfterAdvanceLoaded(it) == it
payloadAfterAdvance(it) == 0

\* blockReader.init(pii) with pii = the iterators 1 .. k, each not yet advanced,
\* for a caller that merges at most maxK parts
brInitUpTo(maxK) ==
    /\ phase = "new"
    /\ UNCHANGED notMrVars
    /\ \E k \in 0 .. maxK :
       \E out \in [1 .. k -> Outcomes] :
          LET f == firstFailure(k, out)
              reached == IF f = 0 THEN k ELSE f
              counts == [i \in Iters |->
                            IF i <= reached
                            THEN pmiNextCount(0, NilErr, out[i]) ELSE 0]
              blocks == [i \in Iters |->
                            IF i <= reached
                            THEN pmiNextBlock(NoKey, NilErr, out[i]) ELSE NoKey]
              queue == appendHolders((IF f = 0 THEN k ELSE f - 1), out)
          IN /\ \A i \in 1 .. k :
                    validOutcome(sumUpTo(counts, i - 1), 0, NoKey, NilErr, out[i])
             \* iterators init never reached meet nothing
             /\ \A i \in 1 .. k : i > reached => out[i] = Advance("EOF", NoKey)
             /\ pii' = k
             /\ pmiCount' = counts
             /\ pmiBlock' = blocks
             /\ pmiErr' = [i \in Iters |->
                              IF i <= reached THEN pmiNextErr(i, NilErr, out[i])
                              ELSE NilErr]
             /\ initFail' = firstIOError(k, out)
             /\ IF f # 0
                THEN /\ brErr' = Wrap(pmiError(pmiNextErr(f, NilErr, out[f])))
                     /\ pih' = queue
                     /\ brBlock' = 0
                     /\ nextBlockNoop' = FALSE
                ELSE IF queue = <<>>
                THEN /\ brErr' = EOFErr
                     /\ pih' = queue
                     /\ brBlock' = 0
                     /\ nextBlockNoop' = FALSE
                ELSE /\ brErr' = NilErr
                     /\ pih' = heapInit(queue, blocks)
                     /\ brBlock' = pih'[1]
                     /\ nextBlockNoop' = noopAfterInit
    /\ phase' = "ready"
    /\ brLoaded' = payloadAfterAdvance(brBlock')
    /\ UNCHANGED <<lastRet, nEmitted, lastEmit, emittedIdx, midFail>>

brInit == brInitUpTo(NumIters)

\* nextBlockMetadata: `if br.err != nil { return false }`
readerFailedWhenDrained(e) == e # NilErr /\ pih = <<>>
readerFailed(e) == e # NilErr

\* what the head iterator may meet when nextBlockMetadata advances it
callOutcomes ==
    IF readerFailed(brErr) \/ nextBlockNoop \/ pih = <<>>
    THEN {Advance("EOF", NoKey)}
    ELSE {o \in Outcomes :
             validOutcome(sumUpTo(pmiCount, NumIters), pmiCount[pih[1]],
                          pmiBlock[pih[1]], pmiErr[pih[1]], o)}

\* the call returns true: the caller reads *br.block
emit(counts, blocks, it) ==
    /\ nEmitted' = nEmitted + 1
    /\ lastEmit' = [it |-> it, idx |-> counts[it], key |-> blocks[it]]
    /\ emittedIdx' = [emittedIdx EXCEPT ![it] = counts[it]]

\* blockReader.nextBlockMetadata, with nextMetadata inlined
brNextBlockMetadata ==
    /\ phase = "ready"
    /\ UNCHANGED notMrVars
    /\ UNCHANGED <<phase, pii, initFail>>
    /\ \E o \in callOutcomes :
        IF readerFailed(brErr)
        THEN /\ lastRet' = "false"
             /\ UNCHANGED <<pmiCount, pmiBlock, pmiErr, brErr, brBlock, pih,
                            nextBlockNoop, brLoaded, nEmitted, lastEmit, emittedIdx,
                            midFail>>
        ELSE IF nextBlockNoop
        THEN /\ nextBlockNoop' = FALSE
             /\ lastRet' = "true"
             /\ emit(pmiCount, pmiBlock, brBlock)
             /\ UNCHANGED <<pmiCount, pmiBlock, pmiErr, brErr, brBlock, pih, brLoaded,
                            midFail>>
        ELSE
          LET head == pih[1]
              counts == [pmiCount EXCEPT ![head] = pmiNextCount(@, pmiErr[head], o)]
              blocks == [pmiBlock EXCEPT ![head] = pmiNextBlock(@, pmiErr[head], o)]
              errs == [pmiErr EXCEPT ![head] = pmiNextErr(head, @, o)]
              popped == heapPop(pih, blocks)
          IN /\ pmiCount' = counts
             /\ pmiBlock' = blocks
             /\ pmiErr' = errs
             /\ nextBlockNoop' = FALSE
             /\ brLoaded' = payloadAfterAdvance(brBlock')
             /\ midFail' = IF o.kind = "io"
                           THEN [it |-> head, len |-> nEmitted] ELSE midFail
             /\ IF pmiNextOK(pmiErr[head], o)
                THEN \* heap.Fix(&br.pih, 0); br.block = &br.pih[0].block
                     /\ pih' = heapFix(pih, blocks, 0)
                     /\ brBlock' = pih'[1]
                     /\ brErr' = NilErr
                     /\ lastRet' = "true"
                     /\ emit(counts, blocks, pih'[1])
                ELSE IF headFailed(pmiError(errs[head]))
                THEN \* br.block = nil; return err
                     /\ pih' = pih
                     /\ brBlock' = 0
                     /\ brErr' = Wrap(pmiError(errs[head]))
                     /\ lastRet' = "false"
                     /\ UNCHANGED <<nEmitted, lastEmit, emittedIdx>>
                ELSE IF popped = <<>>
                THEN \* heap.Pop; br.block = nil; return io.EOF
                     /\ pih' = popped
                     /\ brBlock' = 0
                     /\ brErr' = EOFErr
                     /\ lastRet' = "false"
                     /\ UNCHANGED <<nEmitted, lastEmit, emittedIdx>>
                ELSE \* heap.Pop; br.block = &br.pih[0].block
                     /\ pih' = popped
                     /\ brBlock' = popped[1]
                     /\ brErr' = NilErr
                     /\ lastRet' = "true"
                     /\ emit(counts, blocks, popped[1])

\* br.loadBlockData(decoder): br.pih[0].mustLoadBlockData(decoder, br.block).
\* The caller asks for the payload of a block nextBlockMetadata has exposed.
loadBlockData ==
    /\ phase = "ready"
    /\ lastRet = "true"
    /\ UNCHANGED notMrVars
    /\ brLoaded' = pih[1]
    /\ UNCHANGED <<pmiCount, pmiBlock, pmiErr, brErr, brBlock, pih, nextBlockNoop,
                   phase, pii, lastRet, nEmitted, lastEmit, emittedIdx, initFail,
                   midFail>>

(***************************************************************************)
(* memPart: the in-memory segment (part.go:95-136)                         *)
(***************************************************************************)
\* the bytes.Buffer fields: meta, primary, timestamps, and one data and one
\* metadata buffer per tag family
FixedBuffers == {<<"meta", 0>>, <<"primary", 0>>, <<"timestamps", 0>>}
familyBuffers(fams) == {<<"tf", f>> : f \in fams} \cup {<<"tfm", f>> : f \in fams}
Buffers == FixedBuffers \cup familyBuffers(TagFamilies)

\* partMetadata: the identifier and one of the summary statistics
PartMetadata(id, count) == [ID |-> id, TotalCount |-> count]
\* partMetadata.reset
zeroPartMetadata == PartMetadata(0, 0)

\* what a memPart may hold after earlier use
MemPartMetadatas == {PartMetadata(id, c) : id \in 0 .. MaxPartID, c \in {0, MaxRows}}
MemPartLens(fams) ==
    {l \in [Buffers -> {0, MaxBufLen}] :
        \A b \in Buffers \ (FixedBuffers \cup familyBuffers(fams)) : l[b] = 0}

\* memPart.reset: every buffer is emptied, the map entries stay
resetLen == [b \in Buffers |-> 0]

\* what the blockWriter leaves in the memPart for a non-empty batch: data in
\* the three column buffers and, for rows carrying tags, in a tag family
writtenFamilies(batch) ==
    IF \E k \in 1 .. Len(batch) : batch[k].tagBytes > 0 THEN {1} ELSE {}
writtenLen(batch) ==
    [b \in Buffers |->
        IF b \in FixedBuffers \cup familyBuffers(writtenFamilies(batch))
        THEN MaxBufLen ELSE 0]

\* a memPart just generated, nothing in it
NewMemPart ==
    /\ mpMeta = zeroPartMetadata
    /\ mpFamilies = {}
    /\ mpLen = resetLen

\* a memPart as earlier use may have left it
AnyMemPart ==
    /\ mpMeta \in MemPartMetadatas
    /\ mpFamilies \in SUBSET TagFamilies
    /\ mpLen \in MemPartLens(mpFamilies)

(***************************************************************************)
(* memPart.mustInitFromElements: sort the batch, cut it into blocks        *)
(***************************************************************************)
\* a series identifier may be any uint64, 0 included: 0, the smallest and the
\* largest other identifier; the smallest and the largest timestamp
SeriesIDs == {0, 1, MaxSid}
Timestamps == {1, MaxTs}
Row(sid, ts, eid, tagBytes) == [sid |-> sid, ts |-> ts, eid |-> eid, tagBytes |-> tagBytes]

\* the batches of at most maxLen rows: row k carries element identifier k
Batches(maxLen) ==
    UNION {
        {[k \in 1 .. len |-> Row(f[k][1], f[k][2], k, f[k][3])] :
            f \in [1 .. len -> SeriesIDs \X Timestamps \X {0, MaxTagBytes}]}
        : len \in 0 .. maxLen}

\* the fixed maximum of a block's uncompressed size, scaled down: three rows
\* without tags reach it
maxUncompressedBlockSize == 48

\* uncompressedElementSizeBytes: 8 + 8 bytes, plus the tag names and values
uncompressedElementSizeBytes(row) == 8 + 8 + row.tagBytes

\* elements.Less: by series identifier, then by timestamp
elementsLess(a, b) == IF a.sid # b.sid THEN a.sid < b.sid ELSE a.ts < b.ts

RECURSIVE sortedOrders(_)
\* sort.Sort(es): an arrangement of the rows in which no row is Less than an
\* earlier one; sort.Sort is not stable, so rows with equal keys may come out
\* in any order
sortedOrders(rows) ==
    IF rows = {} THEN {<<>>}
    ELSE UNION {
            {<<r>> \o t : t \in sortedOrders(rows \ {r})}
            : r \in {x \in rows : \A y \in rows : ~elementsLess(y, x)}}

sortSort(batch) == sortedOrders({batch[k] : k \in 1 .. Len(batch)})

\* bsw.MustWriteElements(sid, timestamps[from:to], elementIDs[from:to], ...)
MustWriteElementsAfterFirst(sid, s, from, to) == [sid |-> sid, rows |-> SubSeq(s, from + 2, to)]
MustWriteElements(sid, s, from, to) == [sid |-> sid, rows |-> SubSeq(s, from + 1, to)]

\* `if sidPrev == 0 { sidPrev = sid }`
sidPrevOrFirst(sidPrev, sid) == IF sidPrev = 0 THEN sid ELSE sidPrev

RECURSIVE writeLoop(_, _, _, _, _, _)
\* the loop `for i := range es.timestamps` from index i (Go's, from 0) on, and
\* the final MustWriteElements after it
writeLoop(s, i, sidPrev, size, indexPrev, out) ==
    IF i = Len(s)
    THEN Append(out, MustWriteElements(sidPrev, s, indexPrev, Len(s)))
    ELSE LET sid == s[i + 1].sid
             sp == sidPrevOrFirst(sidPrev, sid)
             rowSize == uncompressedElementSizeBytes(s[i + 1])
         IN IF size >= maxUncompressedBlockSize \/ sid # sp
            THEN writeLoop(s, i + 1, sid, rowSize, i,
                           Append(out, MustWriteElements(sp, s, indexPrev, i)))
            ELSE writeLoop(s, i + 1, sp, size + rowSize, indexPrev, out)

InitBuilder ==
    /\ es \in Batches(MaxRows)
    /\ sorted = <<>>
    /\ written = <<>>
    /\ built = FALSE

\* no batch at hand
NoBuilder ==
    /\ es = <<>>
    /\ sorted = <<>>
    /\ written = <<>>
    /\ built = FALSE

\* mp.mustInitFromElements(es)
mustInitFromElements ==
    /\ ~built
    /\ fpc = "idle"
    /\ UNCHANGED notBdVars
    /\ es' = es
    /\ built' = TRUE
    /\ IF Len(es) = 0
       THEN \* mp.reset(); return
            /\ mpMeta' = zeroPartMetadata
            /\ mpLen' = resetLen
            /\ UNCHANGED <<mpFamilies, sorted, written>>
       ELSE \E s \in sortSort(es) :
               /\ sorted' = s
               /\ written' = writeLoop(s, 0, 0, 0, 0, <<>>)
               /\ mpMeta' = PartMetadata(0, Len(es))
               /\ mpFamilies' = mpFamilies \cup writtenFamilies(es)
               /\ mpLen' = writtenLen(es)

(***************************************************************************)
(* package fadvis: the large-file threshold registry                       *)
(***************************************************************************)
\* init: LargeFileThreshold.Store(64 * 1024 * 1024)
DefaultThreshold == 67108864

\* the int64 values callers pass, and the values the registry can hold
ThresholdArgs == (-1) .. MaxThreshold
Thresholds == (1 .. MaxThreshold) \cup {DefaultThreshold}

\* a *protector.Memory: nil, one whose GetThreshold() returns threshold, or
\* one whose GetThreshold() panics
NilProtector == [isNil |-> TRUE, threshold |-> 0, panics |-> FALSE]
Protector(t) == [isNil |-> FALSE, threshold |-> t, panics |-> FALSE]
PanickingProtector == [isNil |-> FALSE, threshold |-> 0, panics |-> TRUE]
ProtectorThresholds == {-1, 0, 1, MaxThreshold}
Protectors ==
    {NilProtector, PanickingProtector} \cup {Protector(t) : t \in ProtectorThresholds}

\* the two sources of package fadvis
Builds == {"helper.go", "part_002"}

NoCall == [op |-> "none", arg |-> 0, before |-> DefaultThreshold, m |-> NilProtector,
           ran |-> FALSE, raised |-> FALSE, first |-> FALSE, closed |-> FALSE,
           statOK |-> FALSE, applied |-> FALSE]

FreshFadvis ==
    /\ LargeFileThreshold = DefaultThreshold
    /\ memoryProtector = NilProtector
    /\ memoryProtectorOnce = FALSE
    /\ smpPc = [t \in Threads |-> "idle"]
    /\ smpRan = 0
    /\ smpReturned = FALSE
    /\ smpImported = FALSE
    /\ thCall = NoCall

InitFadvis ==
    /\ build = "helper.go"
    /\ FreshFadvis

\* SetThreshold: `if threshold > 0 { LargeFileThreshold.Store(threshold) }`
setThresholdStoresAny(threshold) == TRUE
setThresholdStores(threshold) == threshold > 0

\* the value of LargeFileThreshold after SetThreshold(threshold)
storedBySetThreshold(cur, threshold) ==
    IF setThresholdStores(threshold) THEN threshold ELSE cur

\* GetThreshold: LargeFileThreshold.Load()
GetThreshold == LargeFileThreshold

smpFrame == <<build, smpPc, smpRan, smpReturned, smpImported>>

\* SetThreshold(threshold)
SetThreshold ==
    /\ UNCHANGED notThVars
    /\ \E threshold \in ThresholdArgs :
          /\ LargeFileThreshold' = storedBySetThreshold(LargeFileThreshold, threshold)
          /\ thCall' = [NoCall EXCEPT !.op = "SetThreshold", !.arg = threshold,
                                      !.before = LargeFileThreshold]
    /\ UNCHANGED <<memoryProtector, memoryProtectorOnce, smpFrame>>

\* memoryProtectorOnce.Do(f) runs f unless the Once is done
onceNeverDone(done) == FALSE
onceDone(done) == done

\* `if threshold := mp.GetThreshold(); threshold > 0` (helper.go) and
\* `if threshold > 0` in the deferred function (part_002)
importsNothing(threshold) == FALSE
importsThreshold(threshold) == threshold > 0

\* whether a panic of mp.GetThreshold() leaves SetMemoryProtector: part_002
\* recovers it in the deferred function, helper.go has no recover
panicPropagates(b) == b = "helper.go"

\* the function given to memoryProtectorOnce.Do, run for protector m with cur
\* in LargeFileThreshold: the threshold afterwards, whether a panic left it,
\* and the value of the package variable memoryProtector
registration(b, m, cur, stored) ==
    [threshold |-> IF ~m.isNil /\ ~m.panics /\ importsThreshold(m.threshold)
                   THEN storedBySetThreshold(cur, m.threshold)
                   ELSE cur,
     raised |-> ~m.isNil /\ m.panics /\ panicPropagates(b),
     memoryProtector |-> IF b = "helper.go" THEN m ELSE stored]

\* a SetMemoryProtector(m) call as history keeps it
smpRecord(m, ran, raised) ==
    [op |-> "SetMemoryProtector", arg |-> m.threshold,
     before |-> LargeFileThreshold, m |-> m, ran |-> ran, raised |-> raised,
     first |-> ~smpReturned /\ smpRan = 0, closed |-> smpImported,
     statOK |-> FALSE, applied |-> FALSE]

\* SetMemoryProtector(mp) is entered; mp is read only by the function given to
\* Do and is drawn where that function runs or is skipped
smpCall(t) ==
    /\ smpPc[t] = "idle"
    /\ UNCHANGED notThVars
    /\ smpPc' = [smpPc EXCEPT ![t] = "do"]
    /\ UNCHANGED <<LargeFileThreshold, memoryProtector, memoryProtectorOnce, build,
                   smpRan, smpReturned, smpImported, thCall>>

\* the call of SetMemoryProtector(m) leaves the function
smpReturn(t, m, ran, raised) ==
    /\ smpPc' = [smpPc EXCEPT ![t] = "idle"]
    /\ smpReturned' = TRUE
    /\ thCall' = smpRecord(m, ran, raised)

\* Once.Do: the load of the done flag before the lock is taken
smpDo(t) ==
    /\ smpPc[t] = "do"
    /\ UNCHANGED notThVars
    /\ IF onceDone(memoryProtectorOnce)
       THEN /\ \E m \in Protectors : smpReturn(t, m, FALSE, FALSE)
            /\ UNCHANGED <<LargeFileThreshold, memoryProtector, memoryProtectorOnce,
                           build, smpRan, smpImported>>
       ELSE /\ smpPc' = [smpPc EXCEPT ![t] = "locked"]
            /\ UNCHANGED <<LargeFileThreshold, memoryProtector, memoryProtectorOnce,
                           build, smpRan, smpReturned, smpImported, thCall>>

\* Once.Do under its lock: the done flag is read again, the function runs and
\* the flag is set, also when the function panics
smpLocked(t) ==
    /\ smpPc[t] = "locked"
    /\ UNCHANGED notThVars
    /\ UNCHANGED build
    /\ \E m \in Protectors :
          IF onceDone(memoryProtectorOnce)
          THEN /\ smpReturn(t, m, FALSE, FALSE)
               /\ UNCHANGED <<LargeFileThreshold, memoryProtector, memoryProtectorOnce,
                              smpRan, smpImported>>
          ELSE LET r == registration(build, m, LargeFileThreshold, memoryProtector)
               IN /\ LargeFileThreshold' = r.threshold
                  /\ memoryProtector' = r.memoryProtector
                  /\ memoryProtectorOnce' = TRUE
                  /\ smpRan' = smpRan + 1
                  /\ smpImported' =
                        (smpImported \/ (~m.isNil /\ ~m.panics /\ m.threshold > 0))
                  /\ smpReturn(t, m, TRUE, r.raised)

\* os.Stat(filePath): an error, or a file of some size; the sizes lie around
\* the thresholds the registry can hold
StatError == [ok |-> FALSE, size |-> 0]
StatSize(size) == [ok |-> TRUE, size |-> size]
FileSizes == (0 .. MaxThreshold + 1) \cup {DefaultThreshold, DefaultThreshold + 1}
StatResults == {StatError} \cup {StatSize(size) : size \in FileSizes}

\* ApplyIfLarge: `if fileInfo, err := os.Stat(filePath); err == nil` and
\* `if fileInfo.Size() > threshold`: whether fadvis.Apply(filePath) is called
appliesHintFromThreshold(statOK, size, threshold) == statOK /\ size >= threshold
appliesHint(statOK, size, threshold) == statOK /\ size > threshold

\* ApplyIfLarge(filePath), the file being what os.Stat finds at the path; the
\* result of fadvis.Apply is logged only
ApplyIfLargeCall ==
    /\ UNCHANGED notThVars
    /\ \E st \in StatResults :
          thCall' = [NoCall EXCEPT !.op = "ApplyIfLarge", !.arg = st.size,
                                   !.before = LargeFileThreshold,
                                   !.statOK = st.ok,
                                   !.applied = appliesHint(st.ok, st.size,
                                                           LargeFileThreshold)]
    /\ UNCHANGED <<LargeFileThreshold, memoryProtector, memoryProtectorOnce, smpFrame>>

(***************************************************************************)
(* memPart.mustFlush, openMemPart and mustOpenFilePart                     *)
(***************************************************************************)
elementIndexFilename == "idx"
\* base names of the path handed to mustFlush: "part" stands for
\* partName(partID), the directory mustOpenFilePart(partID) reads
FlushPaths == {"part", elementIndexFilename}

\* a tag family's name, and a file name as stem and extension
familyName(f) == <<"family", f>>
FileName(stem, ext) == [stem |-> stem, ext |-> ext]

\* filepath.Join(path, metaFilename), ..., filepath.Join(path, name+ext): the
\* file mustFlush writes buffer b to
fileName(b) ==
    IF b[1] = "tf" THEN FileName(familyName(b[2]), ".tf")
    ELSE IF b[1] = "tfm" THEN FileName(familyName(b[2]), ".tfm")
    ELSE FileName(b, ".bin")
FileNames == {fileName(b) : b \in Buffers}

\* filepath.Ext(e.Name()) and removeExt(e.Name(), ext)
filepathExt(name) == name.ext
removeExt(name) == name.stem

\* the bytes a buffer holds; what a file holds
bufferBytes(b) == [of |-> b, len |-> mpLen[b]]
NoBytes == [of |-> <<"none", 0>>, len |-> 0]
Absent == [state |-> "absent", bytes |-> NoBytes]
Partial(b) == [state |-> "partial", bytes |-> [of |-> b, len |-> 0]]
Full(bytes) == [state |-> "full", bytes |-> bytes]

\* the buffer whose bytes mustFlush writes to the file of buffer b
flushSourcePrimary(b) == <<"primary", 0>>
flushSource(b) == b

\* the order of mustFlush after the directory is made
flushStepsHintsBeforeSync ==
    <<"meta", "primary", "timestamps", "tf", "tfm", "metadata", "hints", "sync">>
flushStepsMetadataFirst ==
    <<"metadata", "meta", "primary", "timestamps", "tf", "tfm", "sync", "hints">>
flushSteps ==
    <<"meta", "primary", "timestamps", "tf", "tfm", "metadata", "sync", "hints">>

\* the tag families a step ranges over
stepTodo(k) == IF flushSteps[k] \in {"tf", "tfm"} THEN mpFamilies ELSE {}

\* a *part: what openMemPart and mustOpenFilePart return
Part(meta, pbm, primary, timestamps, tfs, tfms) ==
    [partMetadata |-> meta, primaryBlockMetadata |-> pbm, primary |-> primary,
     timestamps |-> timestamps, tagFamilies |-> tfs, tagFamilyMetadata |-> tfms]
NoPart == Part(zeroPartMetadata, <<"pbm", NoBytes>>, NoBytes, NoBytes, <<>>, <<>>)
NotOpened == [state |-> "none", part |-> NoPart]
Fatal == [state |-> "fatal", part |-> NoPart]
Opened(part) == [state |-> "ok", part |-> part]

\* mustReadPrimaryBlockMetadata: the block index decoded from the meta bytes
mustReadPrimaryBlockMetadata(bytes) == <<"pbm", bytes>>

\* openMemPart(mp)
openMemPart ==
    Part(mpMeta,
         mustReadPrimaryBlockMetadata(bufferBytes(<<"meta", 0>>)),
         bufferBytes(<<"primary", 0>>),
         bufferBytes(<<"timestamps", 0>>),
         [nm \in {familyName(f) : f \in mpFamilies} |-> bufferBytes(<<"tf", nm[2]>>)],
         [nm \in {familyName(f) : f \in mpFamilies} |-> bufferBytes(<<"tfm", nm[2]>>)])

\* mustOpenReader: panics when the file cannot be opened
mustOpenReaderPanics(name) == fsFiles[name].state = "absent"

\* the entries of fileSystem.ReadDir(partPath) with extension ext
readDir(ext) ==
    {nm \in FileNames : fsFiles[nm].state # "absent" /\ filepathExt(nm) = ext}

\* mustOpenFilePart(id, root, fileSystem)
openFilePart(id) ==
    IF ~(fsDir /\ fpath = "part") \/ fsMetadata.state # "full"
    THEN Fatal
    ELSE IF \E b \in FixedBuffers : mustOpenReaderPanics(fileName(b))
    THEN Fatal
    ELSE Opened(Part(
            [fsMetadata.meta EXCEPT !.ID = id],
            mustReadPrimaryBlockMetadata(fsFiles[fileName(<<"meta", 0>>)].bytes),
            fsFiles[fileName(<<"primary", 0>>)].bytes,
            fsFiles[fileName(<<"timestamps", 0>>)].bytes,
            [stem \in {removeExt(nm) : nm \in readDir(".tf")} |->
                fsFiles[FileName(stem, ".tf")].bytes],
            [stem \in {removeExt(nm) : nm \in readDir(".tfm")} |->
                fsFiles[FileName(stem, ".tfm")].bytes]))

\* fadvis.ApplyIfLarge(path): whether fadvis.Apply is called
ApplyIfLarge(name) ==
    appliesHint(fsFiles[name].state # "absent", fsFiles[name].bytes.len,
                LargeFileThreshold)

\* nothing flushed, nothing on disk
NoFlush ==
    /\ fsDir = FALSE
    /\ fsFiles = [nm \in FileNames |-> Absent]
    /\ fsMetadata = [state |-> "absent", meta |-> zeroPartMetadata]
    /\ synced = FALSE
    /\ hinted = {}
    /\ fpc = "idle"
    /\ fstep = 1
    /\ fTodo = {}
    /\ opened = NotOpened

IdleFlusher ==
    /\ NoFlush
    /\ fpath = "part"
    /\ partID = 0

InitFlusher ==
    /\ NoFlush
    /\ fpath \in FlushPaths
    /\ partID \in 0 .. MaxPartID

\* mustFlush up to its first write: MkdirPanicIfExist, then the return for the
\* index directory
flushStart ==
    /\ fpc = "idle"
    /\ UNCHANGED notFlVars
    /\ fsDir' = TRUE
    /\ fpc' = IF fpath = elementIndexFilename THEN "done" ELSE "running"
    /\ fstep' = 1
    /\ fTodo' = stepTodo(1)
    /\ UNCHANGED <<fsFiles, fsMetadata, synced, hinted, fpath, partID, opened>>

\* fs.MustFlush of buffer b: the file is created, then holds all the bytes
mustFlushFile(b) ==
    IF fsFiles[fileName(b)].state = "absent" /\ mpLen[flushSource(b)] > 0
    THEN [fsFiles EXCEPT ![fileName(b)] = Partial(flushSource(b))]
    ELSE [fsFiles EXCEPT ![fileName(b)] = Full(bufferBytes(flushSource(b)))]

\* fs.MustFlush of mp.meta, mp.primary, mp.timestamps
flushWriteFile ==
    /\ fpc = "running"
    /\ flushSteps[fstep] \in {"meta", "primary", "timestamps"}
    /\ UNCHANGED notFlVars
    /\ fsFiles' = mustFlushFile(<<flushSteps[fstep], 0>>)
    /\ IF fsFiles'[fileName(<<flushSteps[fstep], 0>>)].state = "full"
       THEN /\ fstep' = fstep + 1
            /\ fTodo' = stepTodo(fstep + 1)
       ELSE UNCHANGED <<fstep, fTodo>>
    /\ UNCHANGED <<fsDir, fsMetadata, synced, hinted, fpath, partID, fpc, opened>>

\* `for name, tf := range mp.tagFamilies` and `range mp.tagFamilyMetadata`
flushWriteFamily ==
    /\ fpc = "running"
    /\ flushSteps[fstep] \in {"tf", "tfm"}
    /\ UNCHANGED notFlVars
    /\ IF fTodo = {}
       THEN /\ fstep' = fstep + 1
            /\ fTodo' = stepTodo(fstep + 1)
            /\ UNCHANGED fsFiles
       ELSE \E f \in fTodo :
               /\ fsFiles' = mustFlushFile(<<flushSteps[fstep], f>>)
               /\ fTodo' = IF fsFiles'[fileName(<<flushSteps[fstep], f>>)].state = "full"
                           THEN fTodo \ {f} ELSE fTodo
               /\ UNCHANGED fstep
    /\ UNCHANGED <<fsDir, fsMetadata, synced, hinted, fpath, partID, fpc, opened>>

\* mp.partMetadata.mustWriteMetadata(fileSystem, path)
flushWriteMetadata ==
    /\ fpc = "running"
    /\ flushSteps[fstep] = "metadata"
    /\ UNCHANGED notFlVars
    /\ IF fsMetadata.state = "absent"
       THEN /\ fsMetadata' = [state |-> "partial", meta |-> zeroPartMetadata]
            /\ UNCHANGED <<fstep, fTodo>>
       ELSE /\ fsMetadata' = [state |-> "full", meta |-> mpMeta]
            /\ fstep' = fstep + 1
            /\ fTodo' = stepTodo(fstep + 1)
    /\ UNCHANGED <<fsDir, fsFiles, synced, hinted, fpath, partID, fpc, opened>>

\* fileSystem.SyncPath(path)
flushSync ==
    /\ fpc = "running"
    /\ flushSteps[fstep] = "sync"
    /\ UNCHANGED notFlVars
    /\ synced' = TRUE
    /\ fstep' = fstep + 1
    /\ fTodo' = stepTodo(fstep + 1)
    /\ UNCHANGED <<fsDir, fsFiles, fsMetadata, hinted, fpath, partID, fpc, opened>>

\* fadvis.ApplyIfLarge on primary.bin, timestamps.bin and every name+".tf";
\* mustFlush returns
flushHints ==
    /\ fpc = "running"
    /\ flushSteps[fstep] = "hints"
    /\ UNCHANGED notFlVars
    /\ hinted' = {nm \in {fileName(b) : b \in {<<"primary", 0>>, <<"timestamps", 0>>}
                                              \cup {<<"tf", f>> : f \in mpFamilies}} :
                     ApplyIfLarge(nm)}
    /\ fpc' = "done"
    /\ UNCHANGED <<fsDir, fsFiles, fsMetadata, synced, fpath, partID, fstep, fTodo,
                   opened>>

\* the process is killed inside mustFlush
flushCrash ==
    /\ fpc = "running"
    /\ UNCHANGED notFlVars
    /\ fpc' = "crashed"
    /\ UNCHANGED <<fsDir, fsFiles, fsMetadata, synced, hinted, fpath, partID, fstep,
                   fTodo, opened>>

\* mustOpenFilePart(partID, root, fileSystem), after mustFlush returned or the
\* process that ran it was killed
mustOpenFilePart ==
    /\ fpc \in {"done", "crashed"}
    /\ opened = NotOpened
    /\ UNCHANGED notFlVars
    /\ opened' = openFilePart(partID)
    /\ UNCHANGED <<fsDir, fsFiles, fsMetadata, synced, hinted, fpath, partID, fpc,
                   fstep, fTodo>>

(***************************************************************************)
(* seqReader: init, reset and releaseSeqReader                             *)
(***************************************************************************)
indexDirName == "idx"

\* file paths as sequences of components: a column file of a part, a file
\* directly under the index directory, a file one directory below it
NoPath == <<>>
Paths == {<<"part", "primary.bin">>,
          <<indexDirName, "primary.bin">>,
          <<indexDirName, "part", "primary.bin">>}

\* filepath.Dir and filepath.Base
filepathDir(path) == SubSeq(path, 1, Len(path) - 1)
filepathBase(path) == path[Len(path)]

\* `filepath.Base(filepath.Dir(sr.filePath)) == indexDirName`
underIndexNever(path) == FALSE
underIndex(path) == filepathBase(filepathDir(path)) = indexDirName

\* init: `sr.isLargeFile = sr.fileSize > fadvis.GetThreshold()`
isLarge(size, threshold) == size > threshold

NoInit == [path |-> NoPath, stat |-> StatError, threshold |-> 0]
NoDisposal == [op |-> "none", init |-> NoInit, wasLarge |-> FALSE, applied |-> FALSE,
               failed |-> FALSE, threshold |-> 0]

\* &seqReader{}
NewSeqReader ==
    /\ srBound = FALSE
    /\ srFilePath = NoPath
    /\ srFileSize = 0
    /\ srIsLargeFile = FALSE
    /\ srInit = NoInit
    /\ srDisposal = NoDisposal

\* reset: whether it returns at the index directory test, leaving every field
resetReturnsEarly == srIsLargeFile /\ srFilePath # NoPath /\ underIndex(srFilePath)
\* reset: whether pkgfadvis.Apply(sr.filePath) is called
resetApplies == srIsLargeFile /\ srFilePath # NoPath /\ ~underIndex(srFilePath)

\* what a reset called by op leaves in the history; failed: pkgfadvis.Apply
\* was called and returned an error
disposalBy(op, failed) ==
    IF srBound \/ srFilePath # NoPath
    THEN [op |-> op, init |-> srInit, wasLarge |-> srIsLargeFile,
          applied |-> resetApplies, failed |-> failed,
          threshold |-> LargeFileThreshold]
    ELSE srDisposal

\* sr.reset(), called by op; an error of pkgfadvis.Apply is logged, no more
resetBy(op) ==
    /\ \E failed \in BOOLEAN :
          /\ failed => resetApplies
          /\ srDisposal' = disposalBy(op, failed)
    /\ IF resetReturnsEarly
       THEN UNCHANGED <<srBound, srFilePath, srFileSize, srIsLargeFile, srInit>>
       ELSE /\ srBound' = FALSE
            /\ srFilePath' = NoPath
            /\ srFileSize' = 0
            /\ srIsLargeFile' = FALSE
            /\ srInit' = NoInit

seqReaderReset ==
    /\ UNCHANGED notSrVars
    /\ UNCHANGED thVars
    /\ resetBy("reset")

\* releaseSeqReader(sr): sr.reset() and seqReaderPool.Put(sr); generateSeqReader
\* hands the same reader out again
releaseSeqReader ==
    /\ UNCHANGED notSrVars
    /\ UNCHANGED thVars
    /\ resetBy("release")

\* init: whether it returns or falls through without classifying the file: at
\* the index directory test, or when os.Stat fails
initLeavesUnclassifiedOnError(path, st) == ~st.ok
initLeavesUnclassified(path, st) == underIndex(path) \/ ~st.ok

\* sr.init(r) for a reader of the file at path, st being what os.Stat finds.
\* Its callers hand it a reader that was reset: seqReaders.init resets all
\* its readers first, generateSeqReader returns a new or a released one. The
\* sr.reset() it starts with finds nothing to dispose of.
seqReaderInit ==
    /\ ~srBound
    /\ UNCHANGED notSrVars
    /\ UNCHANGED thVars
    /\ srDisposal' = NoDisposal
    /\ \E path \in Paths, st \in StatResults :
          LET kept == resetReturnsEarly
              size == IF kept THEN srFileSize ELSE 0
              large == IF kept THEN srIsLargeFile ELSE FALSE
          IN /\ srBound' = TRUE
             /\ srFilePath' = path
             /\ srInit' = [path |-> path, stat |-> st, threshold |-> LargeFileThreshold]
             /\ IF initLeavesUnclassified(path, st)
                THEN /\ srFileSize' = size
                     /\ srIsLargeFile' = large
                ELSE /\ srFileSize' = st.size
                     /\ srIsLargeFile' = isLarge(st.size, GetThreshold)

(***************************************************************************)
(* ChunkIDs.HashIntersect                                                  *)
(***************************************************************************)
ChunkID == 1 .. MaxChunkID

\* the values of type ChunkIDs with at most maxLen elements
ChunkIDs(maxLen) == UNION {[1 .. k -> ChunkID] : k \in 0 .. maxLen}

\* `for _, item := range c { hash[item] = struct{}{} }`
hashOf(c) == {c[i] : i \in DOMAIN c}

\* `for _, item := range other`: item is appended when hash holds it
RECURSIVE intersectLoop(_, _, _, _)
intersectLoop(other, i, hash, intersection) ==
    IF i > Len(other) THEN intersection
    ELSE intersectLoop(other, i + 1, hash,
                       IF other[i] \in hash
                       THEN Append(intersection, other[i])
                       ELSE intersection)

\* c.HashIntersect(other)
HashIntersect(c, other) ==
    IF Len(c) = 0 \/ Len(other) = 0
    THEN <<>>
    ELSE intersectLoop(other, 1, hashOf(c), <<>>)

NoIntersect ==
    /\ hiC = <<>>
    /\ hiOther = <<>>
    /\ hiResult = <<>>
    /\ hiSwapped = <<>>
    /\ hiDone = FALSE

\* c.HashIntersect(other) and other.HashIntersect(c) are called
hashIntersect ==
    /\ ~hiDone
    /\ UNCHANGED notHiVars
    /\ hiResult' = HashIntersect(hiC, hiOther)
    /\ hiSwapped' = HashIntersect(hiOther, hiC)
    /\ hiDone' = TRUE
    /\ UNCHANGED <<hiC, hiOther>>

(***************************************************************************)
(* Spec: threads that take a reference from a live holder and give back    *)
(* exactly the references they took.                                       *)
(***************************************************************************)
Next ==
    \/ \E t \in Threads : Acquire(t)
    \/ \E t \in Threads : Release(t)
    \/ \E t \in Threads : decRefCleanup(t)
    \/ \E t \in Threads : decRefClear(t)
    \/ \E t \in Threads : partClose(t)
    \/ \E t \in Threads : decRefSchedule(t)
    \/ removeAll
    \/ markRemovable

Init ==
    /\ InitWrapper /\ InitReader /\ NoBuilder /\ InitFadvis /\ NewMemPart /\ IdleFlusher
    /\ NewSeqReader
    /\ NoIntersect

Spec == Init /\ [][Next]_vars

(***************************************************************************)
(* SpecAnyCalls: any sequence of incRef/decRef calls, balanced or not.     *)
(***************************************************************************)
NextAnyCalls ==
    \/ Next
    \/ \E t \in Threads : LateAcquire(t)
    \/ \E t \in Threads : ExtraRelease(t)

SpecAnyCalls == Init /\ [][NextAnyCalls]_vars

(***************************************************************************)
(* SpecMerge: one blockReader, initialised once and pulled by its caller   *)
(***************************************************************************)
InitMerge ==
    /\ InitWrapper
    /\ mp = "nil"
    /\ InitReader
    /\ NoBuilder
    /\ InitFadvis
    /\ NewMemPart
    /\ IdleFlusher
    /\ NewSeqReader
    /\ NoIntersect

NextMerge ==
    \/ brInit
    \/ brNextBlockMetadata
    \/ loadBlockData

SpecMerge == InitMerge /\ [][NextMerge]_vars

(***************************************************************************)
(* SpecBuild: one batch of at most MaxRows rows, handed to                 *)
(* mustInitFromElements                                                    *)
(***************************************************************************)
InitBuild ==
    /\ InitWrapper
    /\ mp = "nil"
    /\ InitReader
    /\ InitBuilder
    /\ InitFadvis
    /\ NewMemPart
    /\ IdleFlusher
    /\ NewSeqReader
    /\ NoIntersect

NextBuild == mustInitFromElements

SpecBuild == InitBuild /\ [][NextBuild]_vars

(***************************************************************************)
(* SpecFadvis: any sequence of calls to the threshold registry             *)
(***************************************************************************)
InitThreshold ==
    /\ InitWrapper
    /\ mp = "nil"
    /\ InitReader
    /\ NoBuilder
    /\ build \in Builds
    /\ FreshFadvis
    /\ NewMemPart
    /\ IdleFlusher
    /\ NewSeqReader
    /\ NoIntersect

NextFadvis ==
    \/ SetThreshold
    \/ \E t \in Threads : smpCall(t)
    \/ \E t \in Threads : smpDo(t)
    \/ \E t \in Threads : smpLocked(t)
    \/ ApplyIfLargeCall

SpecFadvis == InitThreshold /\ [][NextFadvis]_vars

(***************************************************************************)
(* SpecFlush: a memPart, possibly re-initialised from an empty batch, is   *)
(* flushed; the process may be killed at any step; the directory is opened *)
(***************************************************************************)
InitFlush ==
    /\ InitWrapper
    /\ mp = "nil"
    /\ InitReader
    /\ NoBuilder
    /\ LargeFileThreshold \in Thresholds
    /\ memoryProtector = NilProtector
    /\ memoryProtectorOnce = FALSE
    /\ build = "helper.go"
    /\ smpPc = [t \in Threads |-> "idle"]
    /\ smpRan = 0
    /\ smpReturned = FALSE
    /\ smpImported = FALSE
    /\ thCall = NoCall
    /\ AnyMemPart
    /\ InitFlusher
    /\ NewSeqReader
    /\ NoIntersect

NextFlush ==
    \/ mustInitFromElements
    \/ flushStart
    \/ flushWriteFile
    \/ flushWriteFamily
    \/ flushWriteMetadata
    \/ flushSync
    \/ flushHints
    \/ flushCrash
    \/ mustOpenFilePart

SpecFlush == InitFlush /\ [][NextFlush]_vars

(***************************************************************************)
(* SpecSeqReader: one pooled seqReader is bound to files and disposed of   *)
(* while the threshold is changed                                          *)
(***************************************************************************)
InitSeqReader ==
    /\ InitWrapper
    /\ mp = "nil"
    /\ InitReader
    /\ NoBuilder
    /\ InitFadvis
    /\ NewMemPart
    /\ IdleFlusher
    /\ NewSeqReader
    /\ NoIntersect

NextSeqReader ==
    \/ SetThreshold
    \/ seqReaderInit
    \/ seqReaderReset
    \/ releaseSeqReader

SpecSeqReader == InitSeqReader /\ [][NextSeqReader]_vars

(***************************************************************************)
(* SpecIntersect: HashIntersect on any two collections of at most          *)
(* MaxChunkIDs identifiers, repeated ones included                         *)
(***************************************************************************)
InitIntersect ==
    /\ InitWrapper
    /\ mp = "nil"
    /\ InitReader
    /\ NoBuilder
    /\ InitFadvis
    /\ NewMemPart
    /\ IdleFlusher
    /\ NewSeqReader
    /\ hiC \in ChunkIDs(MaxChunkIDs)
    /\ hiOther \in ChunkIDs(MaxChunkIDs)
    /\ hiResult = <<>>
    /\ hiSwapped = <<>>
    /\ hiDone = FALSE

NextIntersect == hashIntersect

SpecIntersect == InitIntersect /\ [][NextIntersect]_vars

(***************************************************************************)
(* SpecRemoval: Spec with the scheduler's guarantees: a decRef that has    *)
(* entered cleanup runs to its return, and the goroutine started by `go`   *)
(* runs.  Callers are not required to ever release their references.       *)
(***************************************************************************)
SpecRemoval ==
    /\ Init
    /\ [][Next]_vars
    /\ \A t \in Threads : WF_vars(decRefCleanup(t))
    /\ \A t \in Threads : WF_vars(decRefClear(t))
    /\ \A t \in Threads : WF_vars(partClose(t))
    /\ \A t \in Threads : WF_vars(decRefSchedule(t))
    /\ WF_vars(removeAll)

(***************************************************************************)
(* SpecMergeCaller: SpecMerge with a caller that keeps calling             *)
(* nextBlockMetadata (the merge loop `for br.nextBlockMetadata() { ... }`) *)
(***************************************************************************)
NextMergeCaller ==
    \/ brInitUpTo(NumIters - 1)
    \/ brNextBlockMetadata
    \/ loadBlockData

SpecMergeCaller ==
    /\ InitMerge
    /\ [][NextMergeCaller]_vars
    /\ WF_vars(brNextBlockMetadata)

(***************************************************************************)
(* Claims about partWrapper                                                *)
(***************************************************************************)
AllIdle == \A t \in Threads : pc[t] = "idle"
AllReleased == decs = incs + 1
NoCleanupDone ==
    /\ cleanups = 0
    /\ AllIdle
    /\ memReleased = 0
    /\ \A s \in Streams : closed[s] = 0
    /\ rmScheduled = 0
    /\ rmPending = 0
    /\ dirExists

\* C1: with every thread pairing one incRef with one decRef and the creator
\* releasing its initial reference once, the count always equals 1 plus the
\* incRef calls minus the decRef calls (so any balanced run of calls leaves it
\* where it was), cleanup is entered at most once, only by a decRef whose
\* decrement returned zero, no resource is released twice, and once every
\* reference is released cleanup has been entered exactly once.
C1_BalancedRefCleanupOnce ==
    /\ ref = 1 + incs - decs
    /\ cleanups <= 1
    /\ \A t \in Threads : pc[t] # "idle" => n[t] = 0
    /\ memReleased <= 1
    /\ \A s \in Streams : closed[s] <= 1
    /\ AllReleased => cleanups = 1

\* two readers and the creator have all released, one of them ran cleanup
C1_Witness ==
    /\ AllReleased
    /\ AllIdle
    /\ incs >= 2
    /\ cleanups = 1
    /\ \E t, u \in Threads : t # u /\ n[t] = 0 /\ n[u] > 0 /\ held[u] = 0

\* C2: while some reference is not yet released (the count is positive) the
\* wrapper has performed no cleanup: no stream closed, the memPart not
\* released, no removal scheduled.
C2_NoCleanupWhileReferenced ==
    (SomeoneHolds \/ ref > 0) => NoCleanupDone

\* readers still hold references after the creator released its own
C2_Witness ==
    /\ held[0] = 0
    /\ decs >= 1
    /\ \E t, u \in Threads : t # u /\ held[t] > 0 /\ held[u] > 0
    /\ removable
    /\ NoCleanupDone

\* C3: decRef performs cleanup only if its own decrement returned exactly
\* zero, so over any sequence of incRef/decRef calls, balanced or not, no
\* resource is released more than once.
C3_CleanupOnlyAtExactZero ==
    /\ \A t \in Threads : pc[t] # "idle" => n[t] = 0
    /\ memReleased <= 1
    /\ \A s \in Streams : closed[s] <= 1
    /\ rmScheduled <= 1

\* C4: a step that sets the removable flag closes no stream and schedules or
\* performs no removal, and every step that schedules removal is the last
\* step of a decRef whose decrement returned zero.
C4_MarkRemovableSchedulesNothing ==
    [][ /\ (removable' # removable) =>
              /\ closed' = closed
              /\ rmScheduled' = rmScheduled
              /\ rmPending' = rmPending
              /\ dirExists' = dirExists
        /\ (rmScheduled' # rmScheduled) =>
              \E t \in Threads :
                  /\ pc[t] = "closing"
                  /\ pc'[t] = "idle"
                  /\ n[t] = 0
                  /\ ref = 0
      ]_vars

\* the flag was set only after the final decRef had finished: nothing is removed
C4_Witness ==
    /\ removable
    /\ sawUnset
    /\ AllIdle
    /\ cleanups = 1
    /\ rmScheduled = 0
    /\ dirExists

\* C5: removal is scheduled only with every stream of the part closed and the
\* removable flag set, and once the final decRef has read the flag unset no
\* removal is ever scheduled and the directory stays.
C5_CloseBeforeRemoval ==
    [][ /\ (rmScheduled' # rmScheduled) =>
              /\ removable
              /\ \A s \in Streams : closed[s] = 1
        /\ sawUnset' => (rmScheduled' = 0 /\ rmPending' = 0 /\ dirExists')
      ]_vars

\* the final decRef of a removable file-backed wrapper has scheduled removal
C5_Witness ==
    /\ rmScheduled = 1
    /\ removable
    /\ AllIdle
    /\ \A s \in Streams : closed[s] = 1

\* C6: the step in which the final decRef of a removable file-backed wrapper
\* returns removes nothing itself: it leaves the directory as it is and adds
\* one pending background task; and that step never waits: it is enabled as
\* soon as the streams are closed.
C6_DecRefDoesNotAwaitRemoval ==
    /\ [][ \A t \in Threads :
              (pc[t] = "closing" /\ todo[t] = {} /\ pc'[t] = "idle" /\ removable) =>
                  /\ dirExists' = dirExists
                  /\ rmPending' = rmPending + 1
         ]_vars
    /\ [](\A t \in Threads :
              (pc[t] = "closing" /\ todo[t] = {}) => ENABLED decRefSchedule(t))

\* decRef has returned and the directory is still on disk
C6_Witness ==
    /\ AllIdle
    /\ AllReleased
    /\ rmScheduled = 1
    /\ rmPending = 1
    /\ dirExists

(***************************************************************************)
(* Claims about blockReader                                                *)
(***************************************************************************)
CleanEnd == lastRet = "false" /\ brErr = EOFErr

\* C7: with every input iterator yielding its blocks in ascending (series
\* identifier, timestamp) order, each block exposed by a nextBlockMetadata
\* call that returns true is not less than the block exposed by the previous
\* such call.
C7_MergedOrder ==
    [][ (nEmitted' # nEmitted) => blockLE(lastEmit.key, lastEmit'.key) ]_vars

\* blocks of three parts have been interleaved up to a later series
C7_Witness ==
    /\ nEmitted >= 4
    /\ \A i \in 1 .. 3 : emittedIdx[i] >= 1
    /\ lastEmit.idx = 2
    /\ lastEmit.key[1] > 1
    /\ lastEmit.key[2] > 1

\* C8: every call that returns true exposes the block following the one its
\* iterator had exposed before (none twice, none skipped, the first block of
\* each input included), and at the clean end of the stream every block the
\* iterators yielded has been exposed, so the calls that returned true are as
\* many as the blocks of all inputs.
C8_NothingDroppedNothingMerged ==
    [][ /\ (nEmitted' # nEmitted) =>
              /\ lastEmit'.idx = emittedIdx[lastEmit'.it] + 1
              /\ lastEmit'.idx = pmiCount'[lastEmit'.it]
              /\ lastEmit'.key = pmiBlock'[lastEmit'.it]
        /\ CleanEnd' =>
              /\ \A i \in Iters : emittedIdx'[i] = pmiCount'[i]
              /\ nEmitted' = sumUpTo(pmiCount', NumIters)
      ]_vars

\* a clean end after two parts gave blocks with the same key
C8_Witness ==
    /\ CleanEnd
    /\ nEmitted >= 3
    /\ \E i, j \in Iters :
          /\ i # j
          /\ pmiCount[i] > 0
          /\ pmiCount[j] > 0
          /\ pmiBlock[i] = pmiBlock[j]

\* C9: once the head iterator has failed inside nextBlockMetadata with an
\* error other than a clean end, the call has returned false, br.block is nil,
\* error() is the non-nil error wrapping that iterator's error, and no call
\* exposes a block any more.
C9_HeadErrorStopsMerge ==
    midFail.it # 0 =>
        /\ lastRet = "false"
        /\ brBlock = 0
        /\ brError(brErr) # NilErr
        /\ brErr = Wrap(IOErr(midFail.it))
        /\ nEmitted = midFail.len

\* the head failed while another iterator of the queue held an unexposed block
C9_Witness ==
    /\ midFail.it # 0
    /\ nEmitted >= 1
    /\ \E k \in 1 .. Len(pih) :
          /\ pih[k] # midFail.it
          /\ emittedIdx[pih[k]] < pmiCount[pih[k]]

\* C10: right after an init in which no iterator failed, the queue holds
\* exactly the iterators that had a first block, each once, and every cleanly
\* exhausted iterator was passed over; an iterator failing in init stops init
\* at once: error() is non-nil and wraps its error, no later iterator was
\* advanced, br.block is nil and no call ever exposes a block.
C10_InitSkipsEmptyFailsOnError ==
    /\ (phase = "ready" /\ initFail = 0 /\ lastRet = "none") =>
          /\ {pih[k] : k \in 1 .. Len(pih)} = {i \in 1 .. pii : pmiCount[i] = 1}
          /\ Cardinality({pih[k] : k \in 1 .. Len(pih)}) = Len(pih)
          /\ \A i \in 1 .. pii : pmiCount[i] = 0 => pmiErr[i] = EOFErr
    /\ initFail # 0 =>
          /\ brError(brErr) # NilErr
          /\ brErr = Wrap(IOErr(initFail))
          /\ brBlock = 0
          /\ nEmitted = 0
          /\ lastRet # "true"
          /\ \A i \in Iters : i > initFail => (pmiCount[i] = 0 /\ pmiErr[i] = NilErr)

\* init passed over an empty iterator, then failed on the third, although the
\* first holds a block; the next call returned false
C10_Witness ==
    /\ initFail = 3
    /\ pmiCount[1] = 1
    /\ pmiErr[2] = EOFErr
    /\ lastRet = "false"

\* no iterator has failed, in init or under a later call
NoIteratorFailed == initFail = 0 /\ midFail.it = 0

\* C11 as stated: after any call, nextBlockMetadata has returned false with
\* error() = nil if and only if the queue is empty, and with a non-empty queue
\* and no failed iterator the call has returned true.
C11_CleanEndIffQueueEmpty ==
    lastRet # "none" =>
        /\ (lastRet = "false" /\ brError(brErr) = NilErr) <=> (pih = <<>>)
        /\ (pih # <<>> /\ NoIteratorFailed) => lastRet = "true"

\* C11 amended: after any call, nextBlockMetadata has returned false with
\* error() = nil if and only if the queue is empty and no iterator failed in
\* init (an init that fails before any iterator was queued leaves the queue
\* empty with a non-nil error); with a non-empty queue and no failed iterator
\* the call has returned true.
C11_CleanEndIffQueueEmptyNoInitFailure ==
    lastRet # "none" =>
        /\ (lastRet = "false" /\ brError(brErr) = NilErr)
               <=> (pih = <<>> /\ initFail = 0)
        /\ (pih # <<>> /\ NoIteratorFailed) => lastRet = "true"

\* init over two or more iterators, all exhausted from the start, and the
\* first call reported the clean end
C11_Witness ==
    /\ pii >= 2
    /\ initFail = 0
    /\ pih = <<>>
    /\ lastRet = "false"
    /\ brError(brErr) = NilErr
    /\ nEmitted = 0

\* the reader's fields
readerFields == [err |-> brErr, pih |-> pih, block |-> brBlock, noop |-> nextBlockNoop]

\* what each iterator met at its first advance, read back right after init
firstOutcomes ==
    [i \in Iters |->
        IF pmiCount[i] = 1 THEN Advance("block", pmiBlock[i])
        ELSE IF pmiErr[i] = IOErr(i) THEN Advance("io", NoKey)
        ELSE Advance("EOF", NoKey)]

RECURSIVE listWithout(_, _)
\* the iterators 1 .. k in order, iterator q left out
listWithout(k, q) ==
    IF k = 0 THEN <<>>
    ELSE IF k = q THEN listWithout(k - 1, q)
    ELSE Append(listWithout(k - 1, q), k)

\* the iterators in the queue
queued(h) == {h[k] : k \in 1 .. Len(h)}

\* C12: right after init over a list of iterators, the reader's fields (queue,
\* exposed block, error, pending first block) are those init yields over the
\* same list with any one iterator that was cleanly exhausted from the start
\* left out, and no later call advances, reads or queues an iterator that is
\* not in the queue; so the exposed blocks and the final error are the same
\* with or without that iterator.
C12_EmptyIteratorIsNeutral ==
    /\ [](  (phase = "ready" /\ lastRet = "none") =>
              /\ initOn(listWithout(pii, 0), firstOutcomes) = readerFields
              /\ \A q \in 1 .. pii :
                    (pmiCount[q] = 0 /\ pmiErr[q] = EOFErr) =>
                        initOn(listWithout(pii, q), firstOutcomes) = readerFields )
    /\ [][ phase = "ready" =>
              /\ queued(pih') \subseteq queued(pih)
              /\ \A i \in Iters \ queued(pih) :
                    /\ pmiCount'[i] = pmiCount[i]
                    /\ pmiBlock'[i] = pmiBlock[i]
                    /\ pmiErr'[i] = pmiErr[i]
                    /\ emittedIdx'[i] = emittedIdx[i]
          ]_vars

\* init met a cleanly exhausted iterator between two iterators holding blocks,
\* the later of them with the smaller block
C12_Witness ==
    /\ phase = "ready"
    /\ lastRet = "none"
    /\ pii = 3
    /\ pmiCount[1] = 1
    /\ pmiCount[2] = 0
    /\ pmiErr[2] = EOFErr
    /\ pmiCount[3] = 1
    /\ blockLess(pmiBlock[3], pmiBlock[1])

(***************************************************************************)
(* Claims about memPart.mustInitFromElements                               *)
(***************************************************************************)
RECURSIVE concatRows(_, _)
\* the rows of the first k blocks written, in write order
concatRows(blocks, k) ==
    IF k = 0 THEN <<>> ELSE concatRows(blocks, k - 1) \o blocks[k].rows

RECURSIVE sizeOfRows(_, _)
\* the uncompressed size of the first k rows of a sequence
sizeOfRows(rows, k) ==
    IF k = 0 THEN 0
    ELSE sizeOfRows(rows, k - 1) + uncompressedElementSizeBytes(rows[k])

blockSize(b) == sizeOfRows(b.rows, Len(b.rows))
minTimestamp(b) ==
    CHOOSE t \in {b.rows[j].ts : j \in 1 .. Len(b.rows)} :
        \A j \in 1 .. Len(b.rows) : t <= b.rows[j].ts
maxTimestamp(b) ==
    CHOOSE t \in {b.rows[j].ts : j \in 1 .. Len(b.rows)} :
        \A j \in 1 .. Len(b.rows) : t >= b.rows[j].ts

\* C13 as stated: every block written holds rows of exactly one series
\* identifier, the one it is written under, for every series identifier value,
\* 0 included.
C13_OneSeriesPerBlock ==
    built =>
        \A k \in 1 .. Len(written) :
            \A j \in 1 .. Len(written[k].rows) :
                written[k].rows[j].sid = written[k].sid

\* C14 as stated: for a non-empty batch the blocks are written in ascending
\* order of series identifier and, within one series, of timestamp, and the
\* timestamp ranges of two blocks of one series do not overlap.
C14_BlocksAscendingDisjoint ==
    (built /\ es # <<>>) =>
        \A k, l \in 1 .. Len(written) :
            k < l =>
                \/ written[k].sid < written[l].sid
                \/ /\ written[k].sid = written[l].sid
                   /\ minTimestamp(written[k]) <= minTimestamp(written[l])
                   /\ maxTimestamp(written[k]) < minTimestamp(written[l])

\* C15 as stated: a batch of one series totalling less than
\* maxUncompressedBlockSize is written as exactly one block; one totalling more
\* is written as at least two blocks, every split placed before the row that
\* would take the block over the cap (the block closed by the split is within
\* the cap and the next row would not have fitted).
C15_SplitBeforeCap ==
    (built /\ es # <<>> /\ \A k \in 1 .. Len(es) : es[k].sid = es[1].sid) =>
        /\ sizeOfRows(es, Len(es)) < maxUncompressedBlockSize => Len(written) = 1
        /\ sizeOfRows(es, Len(es)) > maxUncompressedBlockSize =>
              /\ Len(written) >= 2
              /\ \A k \in 1 .. Len(written) - 1 :
                    /\ blockSize(written[k]) <= maxUncompressedBlockSize
                    /\ blockSize(written[k])
                          + uncompressedElementSizeBytes(written[k + 1].rows[1])
                          > maxUncompressedBlockSize

\* C16 as stated: rows with the same series identifier and the same timestamp
\* are written in their input order.
C16_StableOrder ==
    built =>
        LET rows == concatRows(written, Len(written))
        IN \A i, j \in 1 .. Len(rows) :
              (i < j /\ rows[i].sid = rows[j].sid /\ rows[i].ts = rows[j].ts) =>
                  rows[i].eid < rows[j].eid

NothingOnDisk ==
    /\ ~fsDir
    /\ \A nm \in FileNames : fsFiles[nm] = Absent
    /\ fsMetadata.state = "absent"

\* every column file of the memPart is on disk with all its bytes, and so is
\* metadata.json
CompleteOnDisk ==
    /\ fsDir
    /\ \A b \in FixedBuffers \cup familyBuffers(mpFamilies) :
          fsFiles[fileName(b)] = Full(bufferBytes(b))
    /\ fsMetadata = [state |-> "full", meta |-> mpMeta]

\* C17 as stated: after mustInitFromElements on an empty batch no block has
\* been written and the memPart is in the reset state (zeroed part metadata,
\* every buffer empty) whatever it held before, and a mustFlush of the
\* memPart in that state does nothing: no directory, no file, no hint.
C17_EmptyBatchResetsAndFlushIsNoOp ==
    (built /\ es = <<>>) =>
        /\ written = <<>>
        /\ mpMeta = zeroPartMetadata
        /\ \A b \in Buffers : mpLen[b] = 0
        /\ fpc # "idle" => (NothingOnDisk /\ hinted = {})

C19_FlushOpenEqualsOpenMemPart ==
    (fpc = "done" /\ fpath = "part" /\ opened # NotOpened) =>
        opened = Opened(openMemPart)

\* C19 amended: the same, except for partMetadata.ID, which in the opened
\* part is partID whatever the memPart's partMetadata.ID is.
C19_FlushOpenEqualsOpenMemPartUpToID ==
    (fpc = "done" /\ fpath = "part" /\ opened # NotOpened) =>
        opened = Opened([openMemPart EXCEPT !.partMetadata.ID = partID])

\* a memPart with a non-empty tag family, whose identifier is not partID, has
\* been flushed and opened
C19_Witness ==
    /\ fpc = "done"
    /\ fpath = "part"
    /\ opened.state = "ok"
    /\ mpMeta.ID # partID
    /\ \E f \in mpFamilies : mpLen[<<"tf", f>>] > 0 /\ mpLen[<<"tfm", f>>] = 0
    /\ mpLen[<<"primary", 0>>] > 0

(***************************************************************************)
(* Claims about the one-time registration of a memory protector            *)
(***************************************************************************)
\* a protector whose threshold SetMemoryProtector can import
validProtector(m) == ~m.isNil /\ ~m.panics /\ m.threshold > 0

\* C21: the function given to memoryProtectorOnce.Do runs at most once, and
\* exactly once as soon as some SetMemoryProtector call has returned, however
\* the calls of several threads interleave; once a SetMemoryProtector call has
\* returned, no step of any SetMemoryProtector call changes the threshold.
C21_OnlyOneRegistrationTakesEffect ==
    /\ [](smpRan <= 1 /\ (smpReturned => smpRan = 1))
    /\ [][(smpReturned /\ smpPc' # smpPc)
            => LargeFileThreshold' = LargeFileThreshold]_vars

\* a later call with a protector holding another positive threshold has
\* returned without effect while a call that lost the race is still inside Do
C21_Witness ==
    /\ thCall.op = "SetMemoryProtector"
    /\ ~thCall.first
    /\ ~thCall.ran
    /\ validProtector(thCall.m)
    /\ GetThreshold # thCall.arg
    /\ \E t \in Threads : smpPc[t] = "locked"

\* C22: a SetMemoryProtector call with a valid protector, made when no earlier
\* call has imported a threshold, sets the threshold to the protector's.
C22_FailedImportLeavesRegistrationOpen ==
    (thCall.op = "SetMemoryProtector" /\ ~thCall.closed /\ validProtector(thCall.m))
        => GetThreshold = thCall.arg

\* C23: a SetMemoryProtector call with a nil protector, a protector reporting
\* a non-positive threshold or a protector whose GetThreshold panics leaves the
\* threshold as it was and no panic leaves the call.
C23_FailedImportIsSilent ==
    (thCall.op = "SetMemoryProtector" /\ ~validProtector(thCall.m))
        => (GetThreshold = thCall.before /\ ~thCall.raised)

\* C24: right after the first SetMemoryProtector call of the process, made
\* with a protector whose GetThreshold() is T > 0, GetThreshold returns T,
\* whatever value was stored before.
C24_FirstRegistrationImports ==
    (thCall.op = "SetMemoryProtector" /\ thCall.first /\ validProtector(thCall.m))
        => (thCall.ran /\ GetThreshold = thCall.arg)

\* the first call replaced a threshold that SetThreshold had stored
C24_Witness ==
    /\ thCall.op = "SetMemoryProtector"
    /\ thCall.first
    /\ validProtector(thCall.m)
    /\ thCall.before # DefaultThreshold
    /\ thCall.before # thCall.arg
    /\ GetThreshold = thCall.arg

(***************************************************************************)
(* Claims about ApplyIfLarge                                               *)
(***************************************************************************)
\* C25: right after ApplyIfLarge(path), fadvis.Apply was called if and only
\* if os.Stat succeeded and the file's size is strictly greater than the
\* threshold held when the call was made: not for a file of exactly the
\* threshold size, not for a path that cannot be stat'ed.
C25_HintIffStrictlyLarger ==
    thCall.op = "ApplyIfLarge" =>
        /\ thCall.applied <=> (thCall.statOK /\ thCall.arg > thCall.before)
        /\ (thCall.statOK /\ thCall.arg = thCall.before) => ~thCall.applied
        /\ (thCall.statOK /\ thCall.arg = thCall.before + 1) => thCall.applied
        /\ ~thCall.statOK => ~thCall.applied

\* a file one byte larger than a threshold SetThreshold stored was hinted
C25_Witness ==
    /\ thCall.op = "ApplyIfLarge"
    /\ thCall.statOK
    /\ thCall.before # DefaultThreshold
    /\ thCall.arg = thCall.before + 1
    /\ thCall.applied

(***************************************************************************)
(* Claims about seqReader                                                  *)
(***************************************************************************)
\* the file's parent directory is the index directory
directlyUnderIndex(path) == Len(path) >= 2 /\ path[Len(path) - 1] = indexDirName

\* the file init found was larger than the threshold in force at init
largerAtInit(i) == i.stat.ok /\ i.stat.size > i.threshold

\* C26: a seqReader bound to a file is classified large if and only if the
\* file's size strictly exceeded the threshold in force at init; a disposal
\* called the hint on its path if and only if the reader was classified large
\* and the file is not directly under the index directory.
C26_LargeIffOverThresholdAtInit ==
    /\ srBound => (srIsLargeFile <=> largerAtInit(srInit))
    /\ srDisposal.op # "none" =>
          (srDisposal.applied <=>
              (srDisposal.wasLarge /\ ~directlyUnderIndex(srDisposal.init.path)))

\* C26, amended: a seqReader bound to a file is classified large if and only
\* if the file is not directly under the index directory, os.Stat succeeded
\* and the size strictly exceeded the threshold in force at init; a disposal
\* called the hint on its path if and only if the reader was classified large,
\* that is, if and only if the file is not directly under the index directory
\* and was larger than the threshold at init, whatever the threshold is at the
\* disposal.
C26_LargeIffOverThresholdOutsideIndex ==
    /\ srBound =>
          (srIsLargeFile <=> (largerAtInit(srInit) /\ ~directlyUnderIndex(srInit.path)))
    /\ srDisposal.op # "none" =>
          /\ srDisposal.applied <=> srDisposal.wasLarge
          /\ srDisposal.applied <=>
                (largerAtInit(srDisposal.init) /\ ~directlyUnderIndex(srDisposal.init.path))

\* releaseSeqReader hinted a file that is no longer above the threshold, which
\* was raised after init
C26_Witness ==
    /\ srDisposal.op = "release"
    /\ srDisposal.applied
    /\ srDisposal.init.stat.size <= srDisposal.threshold
    /\ srDisposal.init.threshold < srDisposal.init.stat.size

(***************************************************************************)
(* Claims about ChunkIDs.HashIntersect                                     *)
(***************************************************************************)
\* how often identifier x occurs in the collection ids
occurrences(ids, x) == Cardinality({i \in DOMAIN ids : ids[i] = x})

\* C27: c.HashIntersect(other) and other.HashIntersect(c) return the same
\* result: every identifier occurs as often in one as in the other (the order
\* of the two slices is not compared).
C27_HashIntersectCommutes ==
    hiDone => \A x \in ChunkID :
                 occurrences(hiResult, x) = occurrences(hiSwapped, x)

\* C28: c.HashIntersect(other) holds every identifier present in both c and
\* other exactly once, holds no other identifier, and is empty when c or other
\* is empty.
C28_HashIntersectIsTheIntersection ==
    hiDone =>
        /\ \A x \in ChunkID :
              occurrences(hiResult, x) =
                 IF x \in hashOf(hiC) \cap hashOf(hiOther) THEN 1 ELSE 0
        /\ (Len(hiC) = 0 \/ Len(hiOther) = 0) => hiResult = <<>>

(***************************************************************************)
(* Claims about what the merge reader holds in memory                      *)
(***************************************************************************)
\* C29: payload is decoded only by loadBlockData, a step that advances no
\* iterator and changes nothing else of the reader, and only into the block of
\* the iterator at the head of the queue; init and nextBlockMetadata leave no
\* payload loaded. In every state the queue holds every input iterator at most
\* once, so at most one pending block per input and at most N iterators for N
\* inputs.
C29_MetadataOnlyUntilLoad ==
    /\ [](/\ Len(pih) <= pii
          /\ \A i, j \in DOMAIN pih : pih[i] = pih[j] => i = j
          /\ \A i \in DOMAIN pih : pih[i] \in 1 .. pii
          /\ brLoaded # 0 => (pih # <<>> /\ brLoaded = pih[1] /\ brLoaded = brBlock))
    /\ [][(brLoaded' # 0 /\ brLoaded' # brLoaded)
            => UNCHANGED <<pmiCount, pmiBlock, pmiErr, brErr, brBlock, pih,
                           nextBlockNoop, phase, pii, lastRet, nEmitted>>]_vars

\* the payload of a later block was loaded while every input is queued
C29_Witness ==
    /\ brLoaded # 0
    /\ nEmitted >= 2
    /\ pii >= 2
    /\ Len(pih) = pii

(***************************************************************************)
(* Claims about the hints of mustFlush                                     *)
(***************************************************************************)
\* the files mustFlush may hint: primary.bin, timestamps.bin, every .tf file
hintable ==
    {FileName(<<"primary", 0>>, ".bin"), FileName(<<"timestamps", 0>>, ".bin")}
        \cup {FileName(familyName(f), ".tf") : f \in mpFamilies}

\* C30: whenever mustFlush has hinted a file, every file of the part and
\* metadata.json are written in full and the directory is synced; a hinted
\* file is primary.bin, timestamps.bin or a tag-family data file and is larger
\* than the threshold; once mustFlush has returned from a part directory,
\* exactly the files among these that are larger than the threshold are
\* hinted, and no meta.bin, metadata.json or .tfm file is.
C30_HintsAfterSyncOnDataFiles ==
    /\ hinted # {} =>
          /\ synced
          /\ fsMetadata.state = "full"
          /\ \A b \in FixedBuffers \cup familyBuffers(mpFamilies) :
                fsFiles[fileName(b)].state = "full"
    /\ \A nm \in hinted :
          /\ nm \in hintable
          /\ fsFiles[nm].bytes.len > LargeFileThreshold
    /\ (fpc = "done" /\ fpath # elementIndexFilename) =>
          hinted = {nm \in hintable : fsFiles[nm].bytes.len > LargeFileThreshold}

\* mustFlush has returned: a tag-family data file is hinted, its metadata file
\* and meta.bin, also larger than the threshold, are not, and a data file no
\* larger than the threshold is not
C30_Witness ==
    /\ fpc = "done"
    /\ \E f \in mpFamilies :
          /\ FileName(familyName(f), ".tf") \in hinted
          /\ fsFiles[FileName(familyName(f), ".tfm")].bytes.len > LargeFileThreshold
    /\ \E nm \in hintable :
          /\ nm \notin hinted
          /\ fsFiles[nm].bytes.len <= LargeFileThreshold
    /\ fsFiles[FileName(<<"meta", 0>>, ".bin")].bytes.len > LargeFileThreshold

(***************************************************************************)
(* Claims about mustFlush and the index directory                          *)
(***************************************************************************)
\* C31: a mustFlush whose path has the base name of the index directory is
\* skipped entirely: it creates no directory, writes no file, syncs nothing
\* and hints nothing.
C31_IndexPathIsSkipped ==
    (fpath = elementIndexFilename /\ fpc # "idle") =>
        (NothingOnDisk /\ ~synced /\ hinted = {})

(***************************************************************************)
(* Claims about the cleanup branches of decRef                             *)
(***************************************************************************)
NoStreamClosed == \A s \in Streams : closed[s] = 0
NothingRemoved == rmScheduled = 0 /\ rmPending = 0 /\ dirExists

\* C32: the final decRef of a memory-backed wrapper releases the memPart
\* exactly once and clears mp and p; it closes no stream and schedules no
\* removal, whether or not the removable flag is set.  A wrapper whose
\* references are all released and whose decRef has returned holds no memPart.
C32_MemoryBackedCleanup ==
    /\ memReleased > 0 => (memReleased = 1 /\ NoStreamClosed /\ NothingRemoved)
    /\ (memReleased > 0 /\ AllIdle) => (mp = "nil" /\ p = "nil")
    /\ (AllReleased /\ AllIdle) => mp = "nil"
    /\ (AllReleased /\ AllIdle /\ NoStreamClosed) => memReleased = 1

\* a memory-backed wrapper marked removable has been cleaned up after two
\* readers and the creator released it
C32_Witness ==
    /\ removable
    /\ incs >= 2
    /\ AllReleased
    /\ AllIdle
    /\ memReleased = 1
    /\ mp = "nil"
    /\ p = "nil"
    /\ NoStreamClosed
    /\ NothingRemoved

JustCreated == incs = 0 /\ decs = 0 /\ AllIdle

\* C33 as stated: a partWrapper never holds a memPart and a part together,
\* and its reference count is 1 right after newPartWrapper.
C33_NeverBothSegments ==
    /\ ~(mp # "nil" /\ p # "nil")
    /\ JustCreated => ref = 1

\* C33: newPartWrapper stores mp and p as it is given them (both may be set:
\* a memory-backed wrapper may carry the part opened over its memPart) and
\* starts the count at 1; a wrapper always holds a memPart or a part until a
\* memory-backed cleanup clears the two fields together, which is the only
\* step that changes them.
C33_SegmentsAsGivenRefOne ==
    /\ [](JustCreated => (ref = 1 /\ (mp # "nil" \/ p # "nil")))
    /\ [](memReleased = 0 => (mp # "nil" \/ p # "nil"))
    /\ [][ (mp' # mp \/ p' # p) =>
              /\ \E t \in Threads : pc[t] = "clear" /\ pc'[t] = "idle"
              /\ mp' = "nil"
              /\ p' = "nil"
         ]_vars

\* a wrapper built over a memPart and the part opened over it has released the
\* memPart and is about to clear the two fields
C33_Witness ==
    /\ memReleased = 1
    /\ \E t \in Threads : pc[t] = "clear" /\ n[t] = 0
    /\ mp = "memPart"
    /\ p = "part"
    /\ ref = 0
    /\ incs >= 1

FileBacked == mp = "nil" /\ p = "part"

\* C34: the directory of a file-backed wrapper is removed only if the final
\* decRef read the removable flag set: a removed directory implies the flag,
\* one scheduled removal and no unset read; once the final decRef has read
\* the flag unset the directory stays for good, even if the flag is set
\* afterwards; and a flag that is set while the final decRef has not yet read
\* it leads to the removal of the directory.
C34_RemovedIffFlagSetAtFinalDecRef ==
    /\ [](~dirExists => (FileBacked /\ removable /\ rmScheduled = 1 /\ ~sawUnset))
    /\ []((sawUnset /\ removable) => [](dirExists /\ rmPending = 0))
    /\ ((FileBacked /\ removable /\ cleanups = 1 /\ ~sawUnset) ~> ~dirExists)

\* the flag was set before the last reference was released and the background
\* task has removed the directory
C34_Witness ==
    /\ FileBacked
    /\ removable
    /\ AllReleased
    /\ AllIdle
    /\ rmScheduled = 1
    /\ rmPending = 0
    /\ ~dirExists

(***************************************************************************)
(* Claims about the end of a merge                                         *)
(***************************************************************************)
\* C35: once nextBlockMetadata has returned false the reader holds an error
\* (io.EOF included), and while it holds one (after a false return, or after
\* an init that failed) every step returns false, advances no input iterator,
\* leaves the queue as it is and leaves error() unchanged.
C35_FalseIsSticky ==
    /\ [](lastRet = "false" => brErr # NilErr)
    /\ [][ (lastRet = "false" \/ brErr # NilErr) =>
              /\ lastRet' = "false"
              /\ pmiCount' = pmiCount
              /\ pmiBlock' = pmiBlock
              /\ pmiErr' = pmiErr
              /\ pih' = pih
              /\ nEmitted' = nEmitted
              /\ brError(brErr') = brError(brErr)
         ]_vars

\* init failed on a later iterator while an earlier, healthy one was already
\* queued; the call has returned false and the healthy iterator stays put
C35_Witness ==
    /\ lastRet = "false"
    /\ pih # <<>>
    /\ pmiErr[pih[1]] = NilErr
    /\ pmiCount[pih[1]] = 1
    /\ brError(brErr) # NilErr

\* C36: with parts holding finitely many blocks, a caller that keeps calling
\* nextBlockMetadata on an initialised reader eventually gets false; a call
\* advances at most one iterator, by at most one block; the calls that
\* returned true never outnumber the blocks the iterators yielded, and when
\* false comes with no iterator failed every iterator is exhausted and the
\* calls that returned true are as many as the blocks of all inputs.
C36_CallerReachesFalse ==
    /\ []<>(phase = "ready" => lastRet = "false")
    /\ [][ phase = "ready" =>
              \E i \in Iters :
                  /\ pmiCount'[i] \in {pmiCount[i], pmiCount[i] + 1}
                  /\ \A j \in Iters \ {i} : pmiCount'[j] = pmiCount[j]
         ]_vars
    /\ [](nEmitted <= sumUpTo(pmiCount, NumIters))
    /\ []((lastRet = "false" /\ NoIteratorFailed) =>
              /\ \A i \in 1 .. pii : IsEOF(pmiErr[i])
              /\ nEmitted = sumUpTo(pmiCount, NumIters))

\* the caller got false after as many true returns as the parts hold blocks,
\* spread over more than one part
C36_Witness ==
    /\ lastRet = "false"
    /\ NoIteratorFailed
    /\ nEmitted = MaxBlocks
    /\ Cardinality({i \in Iters : pmiCount[i] > 0}) >= 2
    /\ \A i \in 1 .. pii : IsEOF(pmiErr[i])

(***************************************************************************)
(* Claims about the blocks of a memPart                                    *)
(***************************************************************************)
\* C37: for a non-empty batch the blocks written are consecutive non-empty
\* runs of the sorted batch: no block is empty, the blocks concatenated in
\* write order are the sorted batch, and every row of the batch (rows are told
\* apart by their element identifier) lies in exactly one block.
C37_BlocksPartitionSortedBatch ==
    (built /\ es # <<>>) =>
        /\ written # <<>>
        /\ \A k \in 1 .. Len(written) : written[k].rows # <<>>
        /\ concatRows(written, Len(written)) = sorted
        /\ \A r \in 1 .. Len(es) :
              Cardinality({<<k, j>> \in (1 .. Len(written)) \X (1 .. Len(es)) :
                              /\ j <= Len(written[k].rows)
                              /\ written[k].rows[j] = es[r]}) = 1

\* a batch given out of order is cut into a block that reached the size cap
\* and a block of another series
C37_Witness ==
    /\ built
    /\ Len(es) = MaxRows
    /\ sorted # es
    /\ Len(written) >= 2
    /\ \E k \in 1 .. Len(written) : Len(written[k].rows) >= 2
    /\ \E k \in 1 .. Len(written) - 1 : written[k].rows[1].sid = written[k + 1].rows[1].sid

(***************************************************************************)
(* Claims about the disposal of a seqReader                                *)
(***************************************************************************)
srCleared ==
    /\ ~srBound
    /\ srFilePath = NoPath
    /\ srFileSize = 0
    /\ ~srIsLargeFile

\* C38: a seqReader whose file lies directly under the index directory is
\* never classified large, so no reset stops at the index directory test, and
\* a reset always leaves the reader unbound, with no path, size 0 and not
\* large, whether or not it called the hint and whether or not the hint
\* returned an error.
C38_ResetAlwaysClears ==
    /\ directlyUnderIndex(srFilePath) => ~srIsLargeFile
    /\ ~resetReturnsEarly
    /\ srDisposal.op # "none" => srCleared
    /\ srDisposal.failed => (srDisposal.applied /\ srCleared)

\* a file directly under the index directory, larger than the threshold, has
\* been read and its reader reset: no hint, reader cleared
C38_Witness ==
    /\ srDisposal.op = "reset"
    /\ directlyUnderIndex(srDisposal.init.path)
    /\ largerAtInit(srDisposal.init)
    /\ ~srDisposal.wasLarge
    /\ ~srDisposal.applied
    /\ srCleared

====
